---- MODULE Spec2Model ----
(***************************************************************************)
(* A model of the feature recognition and pattern detection core of the    *)
(* FBM package: PatternRecognizer (pattern_recognizer.py), FeatureClassifier*)
(* AdjacencyAnalyzer and MachinabilityScorer (advanced_algorithms.py), the *)
(* detectors, id allocation and pipeline of                               *)
(* AdvancedFeatureRecognitionEngine (FBM_advanced.py) and the analysis of  *)
(* GeometryAnalyzer (geometry_analyzer.py).                                *)
(*                                                                         *)
(* Numbers.  The code computes in floating point millimetres.  The model   *)
(* computes in integers:                                                   *)
(*   - a length is an integer number of units of 0.05 mm (20 units = 1 mm),*)
(*     so POSITION_TOLERANCE (0.5 mm) is 10 and the "too close" limit      *)
(*     (0.1 mm) is 2;                                                      *)
(*   - a square root is taken in fixed point, rounded down to 1/FP unit;   *)
(*   - a quotient the code stores (confidence, spacing, angle, membership) *)
(*     is kept as the exact fraction [num |-> n, den |-> d] with d > 0.    *)
(***************************************************************************)
EXTENDS Integers, Sequences, FiniteSets

VARIABLES
    pc,                 \* position of the modelled call sequence
    features,           \* PatternRecognizer.features (the list given to __init__)
    patterns,           \* the list returned by recognize_all_patterns (detected_patterns)
    props,              \* the property dicts given to fuzzy_classify, in call order
    classifications,    \* the ClassificationResults returned, in call order
    adj,                \* the AdjacencyAnalyzer's input: features and pair checks
    relationships,      \* the list returned by analyze_adjacency
    clusters,           \* the list returned by find_feature_clusters
    shape,              \* the engine's loaded shape (faces, edges, basic features)
    feature_counter,    \* FeatureRecognitionEngine.feature_counter
    all_features,       \* all_features of the running recognize_all_advanced_features
    runs,               \* the feature lists returned by the completed calls
    decisions,          \* multi_criteria_decision: its arguments and the dicts returned
    scores,             \* score_feature: its arguments and the dicts returned
    metrics,            \* GeometryAnalyzer: its shape and the scores returned
    calls               \* the calls made so far by the running engine pipeline

vars == <<pc, features, patterns, props, classifications, adj, relationships,
          clusters, shape, feature_counter, all_features, runs,
          decisions, scores, metrics, calls>>

-----------------------------------------------------------------------------
(* Bounds of the model *)

MaxFeatures == 4        \* longest feature list given to the pattern recognizer
FP == 100               \* fixed-point resolution of a square root (1/FP unit)

-----------------------------------------------------------------------------
(* Arithmetic helpers *)

Abs(x) == IF x < 0 THEN -x ELSE x
Max2(a, b) == IF a >= b THEN a ELSE b
Min2(a, b) == IF a <= b THEN a ELSE b

\* floor(a / b) for any a and b # 0
FloorDiv(a, b) == IF b > 0 THEN a \div b ELSE (-a) \div (-b)

RECURSIVE ISqrtBS(_, _, _)
ISqrtBS(n, lo, hi) ==
    IF lo >= hi THEN lo
    ELSE LET mid == (lo + hi + 1) \div 2
         IN  IF mid * mid <= n THEN ISqrtBS(n, mid, hi)
                               ELSE ISqrtBS(n, lo, mid - 1)

\* floor(sqrt(n)) for 0 <= n < 2^31
ISqrt(n) == ISqrtBS(n, 0, 46340)

\* math.sqrt of an integer number of square units, in 1/FP units
SqrtFP(d2) == ISqrt(d2 * FP * FP)

\* sqrt(a^2 + b^2 + c^2) of fixed-point components, scaled down first when the
\* squares would not fit in 32 bits
RECURSIVE Norm3(_, _, _)
Norm3(a, b, c) ==
    IF Max2(Abs(a), Max2(Abs(b), Abs(c))) <= 26000
    THEN ISqrt(a * a + b * b + c * c)
    ELSE 16 * Norm3(FloorDiv(a, 16), FloorDiv(b, 16), FloorDiv(c, 16))

RECURSIVE SumSeq(_)
SumSeq(s) == IF s = <<>> THEN 0 ELSE Head(s) + SumSeq(Tail(s))

RECURSIVE MaxSeq(_)
MaxSeq(s) == IF Len(s) = 1 THEN s[1] ELSE Max2(Head(s), MaxSeq(Tail(s)))

Range(s) == {s[k] : k \in 1..Len(s)}

\* fractions [num, den] with den > 0
Frac(n, d) == IF d > 0 THEN [num |-> n, den |-> d] ELSE [num |-> -n, den |-> -d]
FracLess(a, b) == a.num * b.den < b.num * a.den
FracLeq(a, b) == a.num * b.den <= b.num * a.den
FracEq(a, b) == a.num * b.den = b.num * a.den
\* (mutant) the greater of the two fractions
FracMin_Greater(a, b) == IF FracLess(a, b) THEN b ELSE a

FracMin(a, b) == IF FracLeq(a, b) THEN a ELSE b

\* list.sort(key=...): a stable insertion sort of a sequence of indices by key[idx]
RECURSIVE InsertByKey(_, _, _)
InsertByKey(sorted, e, key) ==
    IF sorted = <<>> THEN <<e>>
    ELSE IF key[sorted[Len(sorted)]] <= key[e] THEN Append(sorted, e)
    ELSE Append(InsertByKey(SubSeq(sorted, 1, Len(sorted) - 1), e, key),
                sorted[Len(sorted)])

RECURSIVE SortByKey(_, _)
SortByKey(s, key) ==
    IF s = <<>> THEN <<>>
    ELSE InsertByKey(SortByKey(SubSeq(s, 1, Len(s) - 1), key), s[Len(s)], key)

\* [k for k in lo..hi if k in S], ascending
RECURSIVE AscendingIn(_, _, _)
AscendingIn(lo, hi, S) ==
    IF lo > hi THEN <<>>
    ELSE (IF lo \in S THEN <<lo>> ELSE <<>>) \o AscendingIn(lo + 1, hi, S)

-----------------------------------------------------------------------------
(* pattern_recognizer.py *)

POSITION_TOLERANCE == 10   \* 0.5 mm
\* (mutant) three features needed for a pattern
MIN_PATTERN_COUNT_Three == 1 + 2

MIN_PATTERN_COUNT == 2
\* (mutant) the threshold taken as 0: no pair of features is too close
TOO_CLOSE_Never == 0 * POSITION_TOLERANCE

TOO_CLOSE == 2             \* 0.1 mm: "if spacing < 0.1" and "if dx > 0.1"
MIN_CIRCULAR == 3          \* "if len(features) < 3"
MIN_GRID == 4              \* "if len(features) < 4"

NoCenter == <<>>           \* a geometry dict without a 'center' entry
NoValue == <<>>            \* None where the code stores a tuple
NoSpacing == [num |-> 0, den |-> 0]   \* None where the code returns a float

\* (mutant) a feature without a centre is placed by its id instead
PatternRecognizer_get_feature_center_ById(feature) ==
    IF feature.center # NoCenter THEN feature.center
    ELSE <<12 * feature.feature_id, 0, 0>>

PatternRecognizer_get_feature_center(feature) ==
    IF feature.center # NoCenter THEN feature.center ELSE <<0, 0, 0>>

Centers(fs) == [k \in 1..Len(fs) |-> PatternRecognizer_get_feature_center(fs[k])]

Dist2(p, q) == (q[1] - p[1]) * (q[1] - p[1]) + (q[2] - p[2]) * (q[2] - p[2])
               + (q[3] - p[3]) * (q[3] - p[3])

Dot(u, v) == u[1] * v[1] + u[2] * v[2] + u[3] * v[3]
Sub(p, q) == <<p[1] - q[1], p[2] - q[2], p[3] - q[3]>>

\* _is_on_line, with the direction kept as the vector D = spacing * direction:
\* the distance of test_point to the line is sqrt(|v|^2 - (v.D)^2 / |D|^2)
PatternRecognizer_is_on_line(line_point, D, test_point) ==
    LET v == Sub(test_point, line_point)
    IN  Dot(v, v) * Dot(D, D) - Dot(v, D) * Dot(v, D)
            < POSITION_TOLERANCE * POSITION_TOLERANCE * Dot(D, D)

\* _distance_along_line times spacing (spacing > 0, so the order is the same)
PatternRecognizer_distance_along_line(line_point, D, test_point) ==
    Dot(Sub(test_point, line_point), D)

\* (mutant) the members are left in the order found, not sorted along the line
LinearPatternFeatures_Unsorted(centers, n, used, i, j) ==
    LET D == Sub(centers[j], centers[i])
        onLine == {k \in 1..n : /\ k \notin {i, j}
                                /\ k \notin used
                                /\ PatternRecognizer_is_on_line(centers[i], D, centers[k])}
    IN  <<i, j>> \o AscendingIn(1, n, onLine)

\* The members of the candidate line through features i and j, sorted along it
LinearPatternFeatures(centers, n, used, i, j) ==
    LET D == Sub(centers[j], centers[i])
        onLine == {k \in 1..n : /\ k \notin {i, j}
                                /\ k \notin used
                                /\ PatternRecognizer_is_on_line(centers[i], D, centers[k])}
        unsorted == <<i, j>> \o AscendingIn(1, n, onLine)
        key == [k \in 1..n |->
                  PatternRecognizer_distance_along_line(centers[i], D, centers[k])]
    IN  SortByKey(unsorted, key)

\* spacings between consecutive members, in 1/FP units
LinearSpacings(centers, pf) ==
    [p \in 1..(Len(pf) - 1) |-> SqrtFP(Dist2(centers[pf[p]], centers[pf[p + 1]]))]

\* max_deviation * len(spacings), in 1/FP units
MaxDeviationTimesLen(spacings) ==
    LET m == Len(spacings)
        total == SumSeq(spacings)
    IN  MaxSeq([p \in 1..m |-> Abs(m * spacings[p] - total)])

LinearConfidence(spacings) ==
    \* 1.0 - (max_deviation / avg_spacing)
    LET total == SumSeq(spacings)
    IN  Frac(total - MaxDeviationTimesLen(spacings), total)

LinearPattern(fs, centers, i, j, pf) ==
    LET spacings == LinearSpacings(centers, pf)
        feature_ids == [p \in 1..Len(pf) |-> fs[pf[p]].feature_id]
    IN  [pattern_type |-> "LINEAR",
         feature_ids |-> feature_ids,
         pattern_count |-> Len(feature_ids),
         spacing |-> Frac(SumSeq(spacings), Len(spacings) * FP),
         angle |-> Frac(0, 1),
         center |-> NoValue,
         direction |-> Sub(centers[j], centers[i]),
         confidence |-> LinearConfidence(spacings)]

\* (mutant) the members of a found pattern are not marked as used
UsedAfterPattern_NotMarked(used, pf) == used

\* used_features.update(pattern_features)
UsedAfterPattern(used, pf) == used \cup Range(pf)

RECURSIVE LinearScan(_, _, _, _, _, _)
LinearScan(fs, centers, i, j, used, pats) ==
    LET n == Len(fs)
    IN  IF i > n THEN pats
        ELSE IF i \in used \/ j > n
             THEN LinearScan(fs, centers, i + 1, i + 2, used, pats)
        ELSE IF j \in used \/ Dist2(centers[i], centers[j]) < TOO_CLOSE * TOO_CLOSE
             THEN LinearScan(fs, centers, i, j + 1, used, pats)
        ELSE LET pf == LinearPatternFeatures(centers, n, used, i, j)
                 spacings == LinearSpacings(centers, pf)
             IN  IF /\ Len(pf) >= MIN_PATTERN_COUNT
                    /\ MaxDeviationTimesLen(spacings)
                          < Len(spacings) * POSITION_TOLERANCE * FP
                 THEN LinearScan(fs, centers, i + 1, i + 2, UsedAfterPattern(used, pf),
                                 Append(pats, LinearPattern(fs, centers, i, j, pf)))
                 ELSE LinearScan(fs, centers, i, j + 1, used, pats)

PatternRecognizer_detect_linear_patterns(fs) ==
    IF Len(fs) < MIN_PATTERN_COUNT THEN <<>>
    ELSE LinearScan(fs, Centers(fs), 1, 2, {}, <<>>)

\* _calculate_circle_center_3d: None for a collinear triple (abs(d) < 0.001 mm^2,
\* which is 0.4 square units: d = 0), else the centre in 1/FP units
PatternRecognizer_calculate_circle_center_3d(p1, p2, p3) ==
    LET x1 == p1[1]  y1 == p1[2]
        x2 == p2[1]  y2 == p2[2]
        x3 == p3[1]  y3 == p3[2]
        d == 2 * (x1 * (y2 - y3) + x2 * (y3 - y1) + x3 * (y1 - y2))
        nx == (x1 * x1 + y1 * y1) * (y2 - y3) + (x2 * x2 + y2 * y2) * (y3 - y1)
              + (x3 * x3 + y3 * y3) * (y1 - y2)
        ny == (x1 * x1 + y1 * y1) * (x3 - x2) + (x2 * x2 + y2 * y2) * (x1 - x3)
              + (x3 * x3 + y3 * y3) * (x2 - x1)
    IN  IF 5 * Abs(d) < 2 THEN NoValue
        ELSE <<FloorDiv(nx * FP, d), FloorDiv(ny * FP, d),
               FloorDiv((p1[3] + p2[3] + p3[3]) * FP, 3)>>

\* sqrt(sum((centers[m][d] - circle_center[d])**2)), in 1/FP units
DistToCenterFP(p, circle_center) ==
    Norm3(p[1] * FP - circle_center[1], p[2] * FP - circle_center[2],
          p[3] * FP - circle_center[3])

\* (mutant) the features other than the three seeds are not tried on the circle
CircularPatternFeatures_SeedsOnly(centers, n, i, j, k, circle_center) == <<i, j, k>>

CircularPatternFeatures(centers, n, i, j, k, circle_center) ==
    LET radius == DistToCenterFP(centers[i], circle_center)
        fits == {m \in 1..n :
                    /\ m \notin {i, j, k}
                    /\ Abs(DistToCenterFP(centers[m], circle_center) - radius)
                          < POSITION_TOLERANCE * FP}
    IN  <<i, j, k>> \o AscendingIn(1, n, fits)

CircularPattern(fs, pf, circle_center) ==
    LET feature_ids == [p \in 1..Len(pf) |-> fs[pf[p]].feature_id]
    IN  [pattern_type |-> "CIRCULAR",
         feature_ids |-> feature_ids,
         pattern_count |-> Len(feature_ids),
         spacing |-> Frac(0, 1),
         angle |-> Frac(360, Len(pf)),
         center |-> circle_center,
         direction |-> NoValue,
         confidence |-> Frac(9, 10)]

RECURSIVE CircularScan(_, _, _, _, _)
CircularScan(fs, centers, i, j, k) ==
    LET n == Len(fs)
    IN  IF i > n THEN <<>>
        ELSE IF j > n THEN CircularScan(fs, centers, i + 1, i + 2, i + 3)
        ELSE IF k > n THEN CircularScan(fs, centers, i, j + 1, j + 2)
        ELSE LET circle_center ==
                   PatternRecognizer_calculate_circle_center_3d(
                       centers[i], centers[j], centers[k])
             IN  IF circle_center = NoValue
                 THEN CircularScan(fs, centers, i, j, k + 1)
                 ELSE LET pf == CircularPatternFeatures(centers, n, i, j, k,
                                                        circle_center)
                      IN  IF Len(pf) >= MIN_CIRCULAR
                          THEN <<CircularPattern(fs, pf, circle_center)>>
                          ELSE CircularScan(fs, centers, i, j, k + 1)

PatternRecognizer_detect_circular_patterns(fs) ==
    IF Len(fs) < MIN_CIRCULAR THEN <<>>
    ELSE CircularScan(fs, Centers(fs), 1, 2, 3)

\* _find_dominant_spacing: groups is the dict as a sequence of [key, vals] in
\* insertion order; a spacing joins the first group whose key is within tolerance
RECURSIVE FirstGroupNear(_, _, _)
FirstGroupNear(groups, spacing, g) ==
    IF g > Len(groups) THEN 0
    ELSE IF Abs(spacing - groups[g].key) < POSITION_TOLERANCE THEN g
    ELSE FirstGroupNear(groups, spacing, g + 1)

RECURSIVE SpacingGroups(_, _)
SpacingGroups(spacings, groups) ==
    IF spacings = <<>> THEN groups
    ELSE LET s == Head(spacings)
             g == FirstGroupNear(groups, s, 1)
         IN  SpacingGroups(Tail(spacings),
                 IF g = 0 THEN Append(groups, [key |-> s, vals |-> <<s>>])
                 ELSE [groups EXCEPT ![g].vals = Append(@, s)])

\* max(spacing_groups.values(), key=len): the first group of the greatest length
RECURSIVE LargestGroup(_, _, _)
LargestGroup(groups, g, best) ==
    IF g > Len(groups) THEN best
    ELSE LargestGroup(groups, g + 1,
             IF Len(groups[g].vals) > Len(groups[best].vals) THEN g ELSE best)

PatternRecognizer_find_dominant_spacing(spacings) ==
    IF spacings = <<>> THEN NoSpacing
    ELSE LET groups == SpacingGroups(spacings, <<>>)
             max_group == groups[LargestGroup(groups, 1, 1)].vals
         IN  IF Len(max_group) >= 2
             THEN Frac(SumSeq(max_group), Len(max_group))
             ELSE NoSpacing

\* x_spacings (axis 1) or y_spacings (axis 2): for i < j in the same Z plane
RECURSIVE GridSpacings(_, _, _, _)
GridSpacings(centers, axis, i, j) ==
    LET n == Len(centers)
    IN  IF i > n THEN <<>>
        ELSE IF j > n THEN GridSpacings(centers, axis, i + 1, i + 2)
        ELSE LET dd == Abs(centers[j][axis] - centers[i][axis])
                 dz == Abs(centers[j][3] - centers[i][3])
             IN  (IF dz < POSITION_TOLERANCE /\ dd > TOO_CLOSE THEN <<dd>> ELSE <<>>)
                 \o GridSpacings(centers, axis, i, j + 1)

\* Python truth of a dominant spacing: not None and not 0.0
Truthy(spacing) == spacing # NoSpacing /\ spacing.num # 0

PatternRecognizer_detect_grid_patterns(fs) ==
    IF Len(fs) < MIN_GRID THEN <<>>
    ELSE LET centers == Centers(fs)
             x_spacings == GridSpacings(centers, 1, 1, 2)
             y_spacings == GridSpacings(centers, 2, 1, 2)
             x_spacing == PatternRecognizer_find_dominant_spacing(x_spacings)
             y_spacing == PatternRecognizer_find_dominant_spacing(y_spacings)
             feature_ids == [k \in 1..Len(fs) |-> fs[k].feature_id]
         IN  IF /\ x_spacings # <<>> /\ y_spacings # <<>>
                /\ Truthy(x_spacing) /\ Truthy(y_spacing)
                /\ Len(fs) >= MIN_GRID
             THEN <<[pattern_type |-> "GRID",
                     feature_ids |-> feature_ids,
                     pattern_count |-> Len(feature_ids),
                     spacing |-> FracMin(x_spacing, y_spacing),
                     angle |-> Frac(0, 1),
                     center |-> NoValue,
                     direction |-> NoValue,
                     confidence |-> Frac(8, 10)]>>
             ELSE <<>>

\* mirror_planes: (plane_name, flip_axis), flip_axis as a 1-based coordinate
mirror_planes == <<[name |-> "XY", flip_axis |-> 3],
                   [name |-> "XZ", flip_axis |-> 2],
                   [name |-> "YZ", flip_axis |-> 1]>>

\* (mutant) the position is not reflected
Mirrored_Unflipped(p, flip_axis) == p

Mirrored(p, flip_axis) == [p EXCEPT ![flip_axis] = -p[flip_axis]]

\* the first j > i, not used, whose centre matches the mirrored position; 0 if none
RECURSIVE MirrorMatch(_, _, _, _, _)
MirrorMatch(centers, used, flip_axis, i, j) ==
    IF j > Len(centers) THEN 0
    ELSE IF /\ j \notin used
            /\ Dist2(centers[j], Mirrored(centers[i], flip_axis))
                  < POSITION_TOLERANCE * POSITION_TOLERANCE
         THEN j
         ELSE MirrorMatch(centers, used, flip_axis, i, j + 1)

\* mirrored_pairs of one plane, as the flat list i1, j1, i2, j2, ...
RECURSIVE MirroredPairs(_, _, _, _)
MirroredPairs(centers, flip_axis, i, used) ==
    IF i > Len(centers) THEN <<>>
    ELSE IF i \in used THEN MirroredPairs(centers, flip_axis, i + 1, used)
    ELSE LET j == MirrorMatch(centers, used, flip_axis, i, i + 1)
         IN  IF j = 0 THEN MirroredPairs(centers, flip_axis, i + 1, used)
             ELSE <<i, j>> \o MirroredPairs(centers, flip_axis, i + 1,
                                            used \cup {i, j})

\* (mutant) only the first feature of each mirrored pair is listed
MirrorPattern_FirstOfPair(fs, plane, pairs) ==
    LET feature_ids == [p \in 1..(Len(pairs) \div 2) |-> fs[pairs[2 * p - 1]].feature_id]
    IN  [pattern_type |-> "MIRROR",
         feature_ids |-> feature_ids,
         pattern_count |-> Len(feature_ids),
         spacing |-> Frac(0, 1),
         angle |-> Frac(0, 1),
         center |-> NoValue,
         direction |-> <<plane.name>>,
         confidence |-> Frac(85, 100)]

MirrorPattern(fs, plane, pairs) ==
    LET feature_ids == [p \in 1..Len(pairs) |-> fs[pairs[p]].feature_id]
    IN  [pattern_type |-> "MIRROR",
         feature_ids |-> feature_ids,
         pattern_count |-> Len(feature_ids),
         spacing |-> Frac(0, 1),
         angle |-> Frac(0, 1),
         center |-> NoValue,
         direction |-> <<plane.name>>,
         confidence |-> Frac(85, 100)]

RECURSIVE MirrorScan(_, _, _)
MirrorScan(fs, centers, pl) ==
    IF pl > Len(mirror_planes) THEN <<>>
    ELSE LET pairs == MirroredPairs(centers, mirror_planes[pl].flip_axis, 1, {})
         IN  (IF Len(pairs) >= 2
              THEN <<MirrorPattern(fs, mirror_planes[pl], pairs)>>
              ELSE <<>>)
             \o MirrorScan(fs, centers, pl + 1)

PatternRecognizer_detect_mirror_patterns(fs) ==
    IF Len(fs) < 2 THEN <<>>
    ELSE MirrorScan(fs, Centers(fs), 1)

\* _group_features_by_type: the dict as a sequence of groups in first-seen order
RECURSIVE GroupTypes(_, _)
GroupTypes(fs, seen) ==
    IF fs = <<>> THEN <<>>
    ELSE IF Head(fs).feature_type \in seen THEN GroupTypes(Tail(fs), seen)
    ELSE <<Head(fs).feature_type>>
         \o GroupTypes(Tail(fs), seen \cup {Head(fs).feature_type})

\* (mutant) all features in one group, whatever their type
PatternRecognizer_group_features_by_type_OneGroup(fs) == <<fs>>

PatternRecognizer_group_features_by_type(fs) ==
    LET types == GroupTypes(fs, {})
    IN  [g \in 1..Len(types) |-> SelectSeq(fs, LAMBDA f : f.feature_type = types[g])]

GroupPatterns(feature_list) ==
    IF Len(feature_list) < MIN_PATTERN_COUNT THEN <<>>
    ELSE PatternRecognizer_detect_linear_patterns(feature_list)
         \o PatternRecognizer_detect_circular_patterns(feature_list)
         \o PatternRecognizer_detect_grid_patterns(feature_list)
         \o PatternRecognizer_detect_mirror_patterns(feature_list)

RECURSIVE ConcatGroups(_, _)
ConcatGroups(groups, g) ==
    IF g > Len(groups) THEN <<>>
    ELSE GroupPatterns(groups[g]) \o ConcatGroups(groups, g + 1)

PatternRecognizer_recognize_all_patterns(fs) ==
    ConcatGroups(PatternRecognizer_group_features_by_type(fs), 1)

-----------------------------------------------------------------------------
(* advanced_algorithms.py: FeatureClassifier.fuzzy_classify                *)
(* depth and diameter are integers in units of 0.001 mm                    *)

EPSILON == 1                 \* the 0.001 added to the diameter
DEFAULT_DIAMETER == 1000     \* feature_properties.get('diameter', 1)
DEFAULT_DEPTH == 0           \* feature_properties.get('depth', 0)
DEFAULT_ID == 0              \* feature_properties.get('id', 0)

\* dict.get(key, default) of a dict kept as a function on its keys
Get(d, key, default) == IF key \in DOMAIN d THEN d[key] ELSE default

FracOne == Frac(1, 1)
FracZero == Frac(0, 1)
FracSub(a, b) == Frac(a.num * b.den - b.num * a.den, a.den * b.den)
FracDiv(a, b) == Frac(a.num * b.den, a.den * b.num)

\* aspect_ratio = depth / (diameter + 0.001)
AspectRatio(feature_properties) ==
    Frac(Get(feature_properties, "depth", DEFAULT_DEPTH),
         Get(feature_properties, "diameter", DEFAULT_DIAMETER) + EPSILON)

\* (mutant) the ramp of the hole membership starts at 0 instead of 1
HoleMembership_RampFromZero(aspect_ratio) ==
    IF FracLess(Frac(2, 1), aspect_ratio) THEN FracOne
    ELSE IF FracLess(FracOne, aspect_ratio) THEN FracDiv(aspect_ratio, FracOne)
    ELSE FracZero

HoleMembership(aspect_ratio) ==
    IF FracLess(Frac(2, 1), aspect_ratio) THEN FracOne
    ELSE IF FracLess(FracOne, aspect_ratio)
         THEN FracDiv(FracSub(aspect_ratio, FracOne), FracOne)
    ELSE FracZero

\* (mutant) the ramp of the pocket membership ends at 2 instead of 1
PocketMembership_RampToTwo(aspect_ratio) ==
    IF FracLess(aspect_ratio, Frac(1, 2)) THEN FracOne
    ELSE IF FracLess(aspect_ratio, Frac(2, 1))
         THEN FracDiv(FracSub(Frac(2, 1), aspect_ratio), Frac(3, 2))
    ELSE FracZero

PocketMembership(aspect_ratio) ==
    IF FracLess(aspect_ratio, Frac(1, 2)) THEN FracOne
    ELSE IF FracLess(aspect_ratio, FracOne)
         THEN FracDiv(FracSub(FracOne, aspect_ratio), Frac(1, 2))
    ELSE FracZero

\* the memberships dict as its items in insertion order
Memberships(aspect_ratio) ==
    <<[k |-> "hole", v |-> HoleMembership(aspect_ratio)],
      [k |-> "pocket", v |-> PocketMembership(aspect_ratio)]>>

\* (mutant) the item of the least value is selected
RECURSIVE PyMin(_)
PyMin(items) ==
    IF Len(items) = 1 THEN items[1]
    ELSE LET rest == PyMin(Tail(items))
         IN  IF FracLess(rest.v, Head(items).v) THEN rest ELSE Head(items)

\* max(items, key=lambda x: x[1]): the first item of the greatest value
RECURSIVE PyMax(_)
PyMax(items) ==
    IF Len(items) = 1 THEN items[1]
    ELSE LET rest == PyMax(Tail(items))
         IN  IF FracLess(Head(items).v, rest.v) THEN rest ELSE Head(items)

\* alternatives.sort(key=lambda x: x[1], reverse=True): stable, descending
RECURSIVE InsertDescending(_, _)
InsertDescending(sorted, e) ==
    IF sorted = <<>> THEN <<e>>
    ELSE IF FracLeq(e.v, sorted[Len(sorted)].v) THEN Append(sorted, e)
    ELSE Append(InsertDescending(SubSeq(sorted, 1, Len(sorted) - 1), e),
                sorted[Len(sorted)])

RECURSIVE SortDescending(_)
SortDescending(items) ==
    IF items = <<>> THEN <<>>
    ELSE InsertDescending(SortDescending(SubSeq(items, 1, Len(items) - 1)),
                          items[Len(items)])

ALTERNATIVE_THRESHOLD == Frac(3, 10)

Alternatives(memberships, primary) ==
    SortDescending(SelectSeq(memberships,
        LAMBDA m : FracLess(ALTERNATIVE_THRESHOLD, m.v) /\ m.k # primary.k))

\* f"{x:.2f}": the value in hundredths, rounded to the nearest
Hundredths(x) == FloorDiv(200 * x.num + x.den, 2 * x.den)

FeatureClassifier_fuzzy_classify(feature_properties) ==
    LET aspect_ratio == AspectRatio(feature_properties)
        memberships == Memberships(aspect_ratio)
        primary == PyMax(memberships)
    IN  [feature_id |-> Get(feature_properties, "id", DEFAULT_ID),
         primary_classification |-> primary.k,
         confidence |-> primary.v,
         alternative_classifications |-> Alternatives(memberships, primary),
         reasoning |-> <<Hundredths(aspect_ratio),
                         Hundredths(HoleMembership(aspect_ratio)),
                         Hundredths(PocketMembership(aspect_ratio))>>]

-----------------------------------------------------------------------------
(* advanced_algorithms.py: AdjacencyAnalyzer                               *)
(* distances are integers in mm; a strength is the fraction 1 - d/threshold *)
(* The three geometric tests (_calculate_distance, _check_containment,     *)
(* _check_overlap) are methods of the analyzer; the model takes their      *)
(* answers per pair of features from the state, the shipped bodies being   *)
(* the answers (10.0, False, False).                                       *)

proximity_threshold == 5
PLACEHOLDER_DISTANCE == 10
OVERLAP_STRENGTH == Frac(8, 10)

\* the unordered pair of two feature ids, the key of the geometric answers
PairOf(id1, id2) == {id1, id2}

AdjacencyAnalyzer_calculate_distance(geometry, feat1, feat2) ==
    geometry[PairOf(feat1, feat2)].distance

AdjacencyAnalyzer_check_containment(geometry, feat1, feat2) ==
    geometry[PairOf(feat1, feat2)].contained

AdjacencyAnalyzer_check_overlap(geometry, feat1, feat2) ==
    geometry[PairOf(feat1, feat2)].overlap

\* the pair (feat1, feat2) yields a relationship
Related(geometry, feat1, feat2) ==
    \/ AdjacencyAnalyzer_calculate_distance(geometry, feat1, feat2) < proximity_threshold
    \/ AdjacencyAnalyzer_check_containment(geometry, feat1, feat2)
    \/ AdjacencyAnalyzer_check_overlap(geometry, feat1, feat2)

\* (mutant) the containment test is tried before the distance
FeatureRelationship_ContainedFirst(geometry, feat1, feat2) ==
    LET distance == AdjacencyAnalyzer_calculate_distance(geometry, feat1, feat2)
    IN  IF AdjacencyAnalyzer_check_containment(geometry, feat1, feat2)
        THEN [feature1_id |-> feat1, feature2_id |-> feat2,
              relationship_type |-> "contained",
              strength |-> FracOne, notes |-> distance]
        ELSE IF distance < proximity_threshold
        THEN [feature1_id |-> feat1, feature2_id |-> feat2,
              relationship_type |-> "adjacent",
              strength |-> Frac(proximity_threshold - distance, proximity_threshold),
              notes |-> distance]
        ELSE [feature1_id |-> feat1, feature2_id |-> feat2,
              relationship_type |-> "overlapping",
              strength |-> OVERLAP_STRENGTH, notes |-> distance]

\* the FeatureRelationship built for a related pair
FeatureRelationship(geometry, feat1, feat2) ==
    LET distance == AdjacencyAnalyzer_calculate_distance(geometry, feat1, feat2)
    IN  IF distance < proximity_threshold
        THEN [feature1_id |-> feat1, feature2_id |-> feat2,
              relationship_type |-> "adjacent",
              strength |-> Frac(proximity_threshold - distance, proximity_threshold),
              notes |-> distance]
        ELSE IF AdjacencyAnalyzer_check_containment(geometry, feat1, feat2)
        THEN [feature1_id |-> feat1, feature2_id |-> feat2,
              relationship_type |-> "contained",
              strength |-> FracOne, notes |-> distance]
        ELSE [feature1_id |-> feat1, feature2_id |-> feat2,
              relationship_type |-> "overlapping",
              strength |-> OVERLAP_STRENGTH, notes |-> distance]

\* (mutant) only the pair of a feature with itself is skipped
PairSkipped_OnlySelf(i, j) == i = j

\* if i >= j: continue
PairSkipped(i, j) == i >= j

\* the two nested loops, at position (i, j), with the list built so far
RECURSIVE AdjacencyScan(_, _, _, _, _)
AdjacencyScan(fs, geometry, i, j, acc) ==
    IF i > Len(fs) THEN acc
    ELSE IF j > Len(fs) THEN AdjacencyScan(fs, geometry, i + 1, 1, acc)
    ELSE IF PairSkipped(i, j) \/ ~Related(geometry, fs[i], fs[j])
         THEN AdjacencyScan(fs, geometry, i, j + 1, acc)
    ELSE AdjacencyScan(fs, geometry, i, j + 1,
                       Append(acc, FeatureRelationship(geometry, fs[i], fs[j])))

AdjacencyAnalyzer_analyze_adjacency(fs, geometry) ==
    AdjacencyScan(fs, geometry, 1, 1, <<>>)

\* the inner loop of find_feature_clusters over the relationships, for one
\* feature: the cluster and the visited set after relationship k and later
RECURSIVE ClusterCollect(_, _, _, _, _)
ClusterCollect(rels, k, fid, cluster, visited) ==
    IF k > Len(rels) THEN [cluster |-> cluster, visited |-> visited]
    ELSE IF rels[k].feature1_id = fid /\ rels[k].feature2_id \notin visited
         THEN ClusterCollect(rels, k + 1, fid,
                             Append(cluster, rels[k].feature2_id),
                             visited \cup {rels[k].feature2_id})
    ELSE IF rels[k].feature2_id = fid /\ rels[k].feature1_id \notin visited
         THEN ClusterCollect(rels, k + 1, fid,
                             Append(cluster, rels[k].feature1_id),
                             visited \cup {rels[k].feature1_id})
    ELSE ClusterCollect(rels, k + 1, fid, cluster, visited)

\* the outer loop over the features, at feature n
RECURSIVE ClusterScan(_, _, _, _, _)
ClusterScan(fs, rels, n, acc, visited) ==
    IF n > Len(fs) THEN acc
    ELSE IF fs[n] \in visited THEN ClusterScan(fs, rels, n + 1, acc, visited)
    ELSE LET c == ClusterCollect(rels, 1, fs[n], <<fs[n]>>, visited \cup {fs[n]})
         IN  ClusterScan(fs, rels, n + 1,
                         IF Len(c.cluster) > 1 THEN Append(acc, c.cluster) ELSE acc,
                         c.visited)

AdjacencyAnalyzer_find_feature_clusters(fs, geometry) ==
    ClusterScan(fs, AdjacencyAnalyzer_analyze_adjacency(fs, geometry), 1, <<>>, {})

-----------------------------------------------------------------------------
(* The pattern recognizer applied to a feature list *)

\* feature_type values of the lists given to the recognizer
TypeSet == {"Through Hole", "Blind Hole"}

\* geometry['center'] of a feature: missing, or a point (units of 0.05 mm)
CenterSet == {NoCenter, <<1, 0, 0>>, <<12, 0, 0>>, <<-12, 0, 0>>, <<0, 12, 0>>}

\* The features of a list carry the ids FirstId, FirstId + 1, ... in list order
FirstId == 1

FeatureLists(centerSet, typeSet, maxLen) ==
    UNION {[1..n -> [feature_type : typeSet, center : centerSet]] : n \in 0..maxLen}

WithIds(fl) == [k \in 1..Len(fl) |->
                  [feature_id |-> FirstId + k - 1,
                   feature_type |-> fl[k].feature_type,
                   center |-> fl[k].center]]

EmptyShape == [loaded |-> FALSE]

\* the parts of the state a specification does not use
NoRecognizer == features = <<>> /\ patterns = <<>>
NoClassifier == props = <<>> /\ classifications = <<>>
NoAnalyzer == adj = <<>> /\ relationships = <<>> /\ clusters = <<>>
NoEngine == /\ shape = EmptyShape /\ feature_counter = 0
            /\ all_features = <<>> /\ runs = <<>> /\ calls = <<>>
NoScoring == decisions = <<>> /\ scores = <<>> /\ metrics = <<>>

InitPatterns ==
    /\ pc = "constructed"
    /\ features \in {WithIds(fl) : fl \in FeatureLists(CenterSet, TypeSet, MaxFeatures)}
    /\ patterns = <<>>
    /\ NoClassifier /\ NoAnalyzer /\ NoEngine /\ NoScoring

\* patterns = PatternRecognizer(features).recognize_all_patterns()
RecognizeAllPatterns ==
    /\ pc = "constructed"
    /\ patterns' = PatternRecognizer_recognize_all_patterns(features)
    /\ pc' = "recognized"
    /\ UNCHANGED <<features, props, classifications, adj, relationships, clusters,
                   shape, feature_counter, all_features, runs,
                   decisions, scores, metrics, calls>>

NextPatterns == RecognizeAllPatterns

SpecPatterns == InitPatterns /\ [][NextPatterns]_vars

-----------------------------------------------------------------------------
(* Properties of recognize_all_patterns *)

Recognized == pc = "recognized"
PatternIds(p) == Range(p.feature_ids)
FeatureIds(fs) == {fs[k].feature_id : k \in 1..Len(fs)}
PatternsOfType(t) == SelectSeq(patterns, LAMBDA p : p.pattern_type = t)

\* two patterns of the same kind: the same pattern type and, for mirror
\* patterns, the same mirror plane
SameKind(p, q) ==
    /\ p.pattern_type = q.pattern_type
    /\ p.pattern_type = "MIRROR" => p.direction = q.direction

\* C1 as stated: across all patterns returned by one call of
\* recognize_all_patterns no feature id occurs in the feature_ids of two
\* different patterns.
C1_AtMostOnePattern ==
    Recognized =>
        \A a, b \in 1..Len(patterns) :
            a # b => PatternIds(patterns[a]) \cap PatternIds(patterns[b]) = {}

\* C1 as amended: no feature id occurs in two different patterns of the same
\* kind (two linear, two circular, two grid patterns, or two mirror patterns of
\* the same plane) returned by one call of recognize_all_patterns.
C1_AtMostOnePatternPerKind ==
    Recognized =>
        \A a, b \in 1..Len(patterns) :
            (a # b /\ SameKind(patterns[a], patterns[b]))
                => PatternIds(patterns[a]) \cap PatternIds(patterns[b]) = {}

\* C1 witness: a call that returned two linear patterns and a feature that is in
\* a linear and in a mirror pattern.
C1_Witness ==
    /\ Recognized
    /\ Len(PatternsOfType("LINEAR")) >= 2
    /\ \E a, b \in 1..Len(patterns) :
          /\ patterns[a].pattern_type = "LINEAR"
          /\ patterns[b].pattern_type = "MIRROR"
          /\ PatternIds(patterns[a]) \cap PatternIds(patterns[b]) # {}

InUnitInterval(c) == 0 <= c.num /\ c.num <= c.den

\* C2 as stated, for the patterns: every FeaturePattern returned by the four
\* detectors has 0 <= confidence <= 1.
C2_PatternConfidenceBounds ==
    Recognized => \A a \in 1..Len(patterns) : InUnitInterval(patterns[a].confidence)

\* C7: every id in the feature_ids of every returned pattern is the feature_id
\* of a feature of the list given to the recognizer, every pattern has at least
\* 2 feature ids, and pattern_count is the number of feature ids.
C7_ReferentialIntegrity ==
    Recognized =>
        \A a \in 1..Len(patterns) :
            /\ PatternIds(patterns[a]) \subseteq FeatureIds(features)
            /\ Len(patterns[a].feature_ids) >= 2
            /\ patterns[a].pattern_count = Len(patterns[a].feature_ids)

\* C7 witness: a call that returned a pattern of each of the four types.
C7_Witness ==
    /\ Recognized
    /\ \A t \in {"LINEAR", "CIRCULAR", "GRID", "MIRROR"} : PatternsOfType(t) # <<>>

\* n >= 2 features of one type whose centres are equally spaced along one
\* straight line: in some order, consecutive centres differ by one non-zero step
SameType(fs) == \A k \in 1..Len(fs) : fs[k].feature_type = fs[1].feature_type

Orderings(n) == {f \in [1..n -> 1..n] : \A a, b \in 1..n : a # b => f[a] # f[b]}

EquallySpaced(fs) ==
    /\ Len(fs) >= 2
    /\ SameType(fs)
    /\ LET c == Centers(fs)
       IN  \E o \in Orderings(Len(fs)) :
              LET step == Sub(c[o[2]], c[o[1]])
              IN  /\ step # <<0, 0, 0>>
                  /\ \A k \in 1..(Len(fs) - 1) : Sub(c[o[k + 1]], c[o[k]]) = step

\* the square of the common spacing of equally spaced centres (the least
\* distance between two of them)
RECURSIVE MinOfSet(_)
MinOfSet(S) ==
    LET x == CHOOSE y \in S : TRUE
    IN  IF S = {x} THEN x ELSE Min2(x, MinOfSet(S \ {x}))

CommonSpacing2(fs) ==
    MinOfSet({Dist2(Centers(fs)[a], Centers(fs)[b]) :
                 a \in 1..Len(fs), b \in 2..Len(fs)} \ {0})

OneLinearPatternOverAll ==
    LET lin == PatternsOfType("LINEAR")
    IN  /\ Len(lin) = 1
        /\ PatternIds(lin[1]) = FeatureIds(features)
        /\ Len(lin[1].feature_ids) = Len(features)
        /\ FracEq(lin[1].spacing, Frac(SqrtFP(CommonSpacing2(features)), FP))
        /\ FracLess(Frac(95, 100), lin[1].confidence)

\* C10 as stated: for n >= 2 same-type features whose centres are equally
\* spaced along one straight line, recognition returns exactly one linear
\* pattern; it contains all n features, its spacing is the common spacing and
\* its confidence is > 0.95.
C10_EquallySpacedOneLinear ==
    (Recognized /\ EquallySpaced(features)) => OneLinearPatternOverAll

\* C10 as amended: the same, for centres that are equally spaced at least
\* 0.1 (the "too close" limit of detect_linear_patterns) apart.
C10_EquallySpacedApartOneLinear ==
    (/\ Recognized
     /\ EquallySpaced(features)
     /\ CommonSpacing2(features) >= TOO_CLOSE * TOO_CLOSE) => OneLinearPatternOverAll

\* C10 witness: three equally spaced features, at least 0.1 apart, given in an
\* order in which the first two are not neighbours on the line.
C10_Witness ==
    /\ Recognized
    /\ Len(features) = 3
    /\ EquallySpaced(features)
    /\ CommonSpacing2(features) >= TOO_CLOSE * TOO_CLOSE
    /\ Dist2(Centers(features)[1], Centers(features)[2]) > CommonSpacing2(features)
    /\ Len(PatternsOfType("LINEAR")) = 1

-----------------------------------------------------------------------------
(* fuzzy_classify applied to property dicts *)

MaxDepth == 9           \* depths 0..MaxDepth (0.001 mm)
MaxDiameter == 3        \* diameters 0..MaxDiameter (0.001 mm)
MaxCalls == 2           \* number of fuzzy_classify calls

\* Scenario F of the test suite: depth=15.0, diameter=10.0
ScenarioF == [id |-> 1, depth |-> 15000, diameter |-> 10000]

PropSet ==
    [id : {1}, depth : 0..MaxDepth, diameter : 0..MaxDiameter]
    \cup {ScenarioF, [id |-> 1, depth |-> MaxDepth], [diameter |-> MaxDiameter]}

InitFuzzy ==
    /\ pc = "constructed"
    /\ props \in [1..MaxCalls -> PropSet]
    /\ classifications = <<>>
    /\ NoRecognizer /\ NoAnalyzer /\ NoEngine /\ NoScoring

\* result = feature_classifier.fuzzy_classify(feature_props), for the next dict
FuzzyClassify ==
    /\ Len(classifications) < Len(props)
    /\ classifications' = Append(classifications,
           FeatureClassifier_fuzzy_classify(props[Len(classifications) + 1]))
    /\ pc' = "classified"
    /\ UNCHANGED <<features, patterns, props, adj, relationships, clusters,
                   shape, feature_counter, all_features, runs,
                   decisions, scores, metrics, calls>>

NextFuzzy == FuzzyClassify

SpecFuzzy == InitFuzzy /\ [][NextFuzzy]_vars

Classified == 1..Len(classifications)
DepthOf(k) == Get(props[k], "depth", DEFAULT_DEPTH)
DiameterOf(k) == Get(props[k], "diameter", DEFAULT_DIAMETER)
HoleOf(k) == HoleMembership(AspectRatio(props[k]))
PocketOf(k) == PocketMembership(AspectRatio(props[k]))

\* the membership of the class a result names
MembershipOf(k, class) == IF class = "hole" THEN HoleOf(k) ELSE PocketOf(k)

\* C8: for two classified inputs of the same diameter and depths d1 <= d2, the
\* hole membership at d1 is <= that at d2 and the pocket membership at d1 is
\* >= that at d2; both memberships lie in [0,1] and the returned confidence is
\* the greater of the two.
C8_FuzzyMonotone ==
    \A a, b \in Classified :
        /\ InUnitInterval(HoleOf(a)) /\ InUnitInterval(PocketOf(a))
        /\ FracEq(classifications[a].confidence,
                  IF FracLeq(PocketOf(a), HoleOf(a)) THEN HoleOf(a) ELSE PocketOf(a))
        /\ (DiameterOf(a) = DiameterOf(b) /\ DepthOf(a) <= DepthOf(b))
              => (FracLeq(HoleOf(a), HoleOf(b)) /\ FracLeq(PocketOf(b), PocketOf(a)))

\* C8 witness: two classified inputs of one diameter, the first on the pocket
\* ramp and the second on the hole ramp.
C8_Witness ==
    /\ Len(classifications) = 2
    /\ DiameterOf(1) = DiameterOf(2)
    /\ DepthOf(1) < DepthOf(2)
    /\ FracLess(FracZero, PocketOf(1)) /\ FracLess(PocketOf(1), FracOne)
    /\ FracLess(FracZero, HoleOf(2)) /\ FracLess(HoleOf(2), FracOne)

\* C9: the primary classification is the class of the highest membership, the
\* confidence is that membership, the alternatives are exactly the other
\* classes of membership > 0.3 in descending membership order; for depth=15,
\* diameter=10 the primary is 'hole' with 0 < confidence < 1.
C9_PrimaryAndAlternatives ==
    \A a \in Classified :
        LET r == classifications[a]
            alt == r.alternative_classifications
            others == {"hole", "pocket"} \ {r.primary_classification}
        IN  /\ r.primary_classification \in {"hole", "pocket"}
            /\ FracEq(r.confidence, MembershipOf(a, r.primary_classification))
            /\ \A c \in others : FracLeq(MembershipOf(a, c), r.confidence)
            /\ {alt[x].k : x \in 1..Len(alt)}
                  = {c \in others : FracLess(Frac(3, 10), MembershipOf(a, c))}
            /\ \A x \in 1..Len(alt) : FracEq(alt[x].v, MembershipOf(a, alt[x].k))
            /\ \A x, y \in 1..Len(alt) :
                  x < y => (alt[x].k # alt[y].k /\ FracLeq(alt[y].v, alt[x].v))
            /\ props[a] = ScenarioF =>
                  (/\ r.primary_classification = "hole"
                   /\ FracLess(FracZero, r.confidence)
                   /\ FracLess(r.confidence, FracOne))

\* C9 witness: Scenario F classified, and an input classified as a pocket with
\* a confidence strictly between 0.3 and 1.
C9_Witness ==
    /\ Len(classifications) = 2
    /\ props[1] = ScenarioF
    /\ classifications[2].primary_classification = "pocket"
    /\ FracLess(Frac(3, 10), classifications[2].confidence)
    /\ FracLess(classifications[2].confidence, FracOne)

-----------------------------------------------------------------------------
(* FBM_advanced.py: AdvancedFeatureRecognitionEngine                       *)
(* A shape is the list of its edges, the list of its faces and the list of *)
(* the basic features the base engine finds in it.  Radii, positions and   *)
(* widths are integers in units of 0.1 mm, areas in mm^2, cone angles in   *)
(* units of 0.1 degree.                                                    *)

RADIUS_STEP == 5              \* abs(r1 - r2) > 0.5
SINK_ANGLE_MIN == 750         \* 75 < sink_angle
SINK_ANGLE_MAX == 1250        \* sink_angle < 125
BASE_AREA == 1000             \* area > 1000: a base face
RAISED_BY == 10               \* raised_z > base_z + 1.0

NoPattern == <<>>             \* pattern_id = None

\* the base engine (FBM_core) starts the shared counter here
INITIAL_FEATURE_COUNTER == 0

\* an AdvancedMachiningFeature; advanced detectors store no 'center'
AdvancedMachiningFeature(id, type, center, width, depth, confidence, complexity) ==
    [feature_id |-> id, feature_type |-> type, center |-> center,
     width |-> width, depth |-> depth,
     confidence_score |-> confidence, complexity_rating |-> complexity,
     pattern_id |-> NoPattern]

\* (mutant) the counter is left as it is after a feature is appended
Increment_Forgotten(counter) == counter

\* self.feature_counter += 1
Increment(counter) == counter + 1

\* the result of a detector: the features it returns and the counter it leaves
Detected(fs, counter) == [features |-> fs, counter |-> counter]

looks_like_thread(edge) == FALSE

RECURSIVE ThreadScan(_, _, _, _)
ThreadScan(edges, k, acc, counter) ==
    IF k > Len(edges) THEN Detected(acc, counter)
    ELSE IF edges[k] = "Helix" \/ looks_like_thread(edges[k])
         THEN ThreadScan(edges, k + 1,
                  Append(acc, AdvancedMachiningFeature(counter, "Threaded Hole",
                                  NoCenter, 0, 100, Frac(85, 100), 6)),
                  Increment(counter))
    ELSE ThreadScan(edges, k + 1, acc, counter)

recognize_threaded_holes(sh, counter) == ThreadScan(sh.edges, 1, <<>>, counter)

FacesOfType(sh, type) == SelectSeq(sh.faces, LAMBDA f : f.type = type)

\* dot_product > 0.99 of the two axis directions (unit vectors)
are_coaxial(cyl1, cyl2) == 100 * Abs(Dot(cyl1.axis, cyl2.axis)) > 99

\* the first j > i that forms a counterbore with cylinder i, or 0
CounterboreMate(cyls, i) ==
    LET js == {j \in (i + 1)..Len(cyls) :
                  /\ are_coaxial(cyls[i], cyls[j])
                  /\ Abs(cyls[i].radius - cyls[j].radius) > RADIUS_STEP}
    IN  IF js = {} THEN 0 ELSE CHOOSE j \in js : \A m \in js : j <= m

RECURSIVE CounterboreScan(_, _, _, _)
CounterboreScan(cyls, i, acc, counter) ==
    IF i > Len(cyls) THEN Detected(acc, counter)
    ELSE IF CounterboreMate(cyls, i) # 0
         THEN CounterboreScan(cyls, i + 1,
                  Append(acc, AdvancedMachiningFeature(counter, "Counterbore Hole",
                                  NoCenter, 0, 0, Frac(9, 10), 4)),
                  Increment(counter))
    ELSE CounterboreScan(cyls, i + 1, acc, counter)

recognize_counterbores(sh, counter) ==
    CounterboreScan(FacesOfType(sh, "Cylinder"), 1, <<>>, counter)

RECURSIVE CountersinkScan(_, _, _, _)
CountersinkScan(faces, k, acc, counter) ==
    IF k > Len(faces) THEN Detected(acc, counter)
    ELSE IF /\ faces[k].type = "Cone"
            /\ SINK_ANGLE_MIN < faces[k].sink_angle
            /\ faces[k].sink_angle < SINK_ANGLE_MAX
         THEN CountersinkScan(faces, k + 1,
                  Append(acc, AdvancedMachiningFeature(counter, "Countersink Hole",
                                  NoCenter, 0, 0, Frac(95, 100), 3)),
                  Increment(counter))
    ELSE CountersinkScan(faces, k + 1, acc, counter)

\* (mutant) every conical face is taken for a countersink, whatever its angle
recognize_countersinks_AnyCone(sh, counter) ==
    LET cones == FacesOfType(sh, "Cone")
    IN  Detected([k \in 1..Len(cones) |->
                     AdvancedMachiningFeature(counter + k - 1, "Countersink Hole",
                                              NoCenter, 0, 0, Frac(95, 100), 3)],
                 counter + Len(cones))

recognize_countersinks(sh, counter) == CountersinkScan(sh.faces, 1, <<>>, counter)

\* aspect_ratio = max(width, length) / (min(width, length) + 0.001) < 1.5
BossType(face) ==
    IF 200 * Max2(face.width, face.length) < 300 * Min2(face.width, face.length) + 3
    THEN "Circular Boss" ELSE "Rectangular Boss"

RECURSIVE BossScan(_, _, _, _, _)
BossScan(raised_faces, base_faces, k, acc, counter) ==
    IF k > Len(raised_faces) THEN Detected(acc, counter)
    ELSE IF \E b \in 1..Len(base_faces) :
                raised_faces[k].z > base_faces[b].z + RAISED_BY
         THEN BossScan(raised_faces, base_faces, k + 1,
                  Append(acc, AdvancedMachiningFeature(counter, BossType(raised_faces[k]),
                                  NoCenter, raised_faces[k].width, 0, Frac(75, 100), 5)),
                  Increment(counter))
    ELSE BossScan(raised_faces, base_faces, k + 1, acc, counter)

recognize_bosses(sh, counter) ==
    LET planes == FacesOfType(sh, "Plane")
    IN  BossScan(SelectSeq(planes, LAMBDA f : ~(f.area > BASE_AREA)),
                 SelectSeq(planes, LAMBDA f : f.area > BASE_AREA),
                 1, <<>>, counter)

\* ratio = max(w1, w2) / min(w1, w2); 1.5 < ratio < 3.0
forms_t_slot_pattern(pocket1, pocket2) ==
    LET w1 == pocket1.width
        w2 == pocket2.width
    IN  /\ w1 > 0 /\ w2 > 0
        /\ 2 * Max2(w1, w2) > 3 * Min2(w1, w2)
        /\ Max2(w1, w2) < 3 * Min2(w1, w2)

RECURSIVE TSlotScan(_, _, _, _)
TSlotScan(pockets, i, acc, counter) ==
    IF i > Len(pockets) THEN Detected(acc, counter)
    ELSE IF \E j \in (i + 1)..Len(pockets) : forms_t_slot_pattern(pockets[i], pockets[j])
         THEN LET j == CHOOSE j \in (i + 1)..Len(pockets) :
                          /\ forms_t_slot_pattern(pockets[i], pockets[j])
                          /\ \A m \in (i + 1)..(j - 1) :
                                ~forms_t_slot_pattern(pockets[i], pockets[m])
              IN  TSlotScan(pockets, i + 1,
                      Append(acc, AdvancedMachiningFeature(counter, "T-Slot", NoCenter,
                                      Min2(pockets[i].width, pockets[j].width),
                                      Max2(pockets[i].depth, pockets[j].depth),
                                      Frac(8, 10), 7)),
                      Increment(counter))
    ELSE TSlotScan(pockets, i + 1, acc, counter)

\* the base engine (FBM_core): every basic feature takes the next id of the
\* shared counter
RECURSIVE BaseScan(_, _, _, _)
BaseScan(found, k, acc, counter) ==
    IF k > Len(found) THEN Detected(acc, counter)
    ELSE BaseScan(found, k + 1,
             Append(acc, AdvancedMachiningFeature(counter, found[k].feature_type,
                             found[k].center, found[k].width, found[k].depth,
                             Frac(95, 100), 3)),
             counter + 1)

IsPocket(f) == f.feature_type = "Rectangular Pocket"

\* FeatureRecognitionEngine.recognize_pockets
recognize_pockets(sh, counter) ==
    BaseScan(SelectSeq(sh.basic, IsPocket), 1, <<>>, counter)

\* FeatureRecognitionEngine.recognize_all_features, its result converted to
\* AdvancedMachiningFeature (confidence 0.95, complexity 3)
recognize_all_features(sh, counter) == BaseScan(sh.basic, 1, <<>>, counter)

\* the pockets are detected anew, taking ids, and only the T-slots returned
recognize_t_slots(sh, counter) ==
    LET pockets == recognize_pockets(sh, counter)
    IN  TSlotScan(pockets.features, 1, <<>>, pockets.counter)

\* (mutant) the first pattern holding the feature stays
PatternIdOf_First(fid, ps) ==
    LET holding == {i \in 1..Len(ps) : fid \in Range(ps[i].feature_ids)}
    IN  IF holding = {} THEN NoPattern
        ELSE <<(CHOOSE i \in holding : \A m \in holding : i <= m) - 1>>

\* feature.pattern_id = i for every pattern i holding the feature, in order:
\* the last such pattern stays
PatternIdOf(fid, ps) ==
    LET holding == {i \in 1..Len(ps) : fid \in Range(ps[i].feature_ids)}
    IN  IF holding = {} THEN NoPattern
        ELSE <<(CHOOSE i \in holding : \A m \in holding : m <= i) - 1>>

AssignPatternIds(fs, ps) ==
    [k \in 1..Len(fs) |-> [fs[k] EXCEPT !.pattern_id = PatternIdOf(fs[k].feature_id, ps)]]

\* the features of recognize_all_advanced_features before the patterns, and
\* the counter left: basic, threaded, counterbores, countersinks, bosses, T-slots
AllDetected(sh, counter) ==
    LET basic == recognize_all_features(sh, counter)
        threaded == recognize_threaded_holes(sh, basic.counter)
        bores == recognize_counterbores(sh, threaded.counter)
        sinks == recognize_countersinks(sh, bores.counter)
        bosses == recognize_bosses(sh, sinks.counter)
        t_slots == recognize_t_slots(sh, bosses.counter)
    IN  Detected(basic.features \o threaded.features \o bores.features
                   \o sinks.features \o bosses.features \o t_slots.features,
                 t_slots.counter)

-----------------------------------------------------------------------------
(* The adjacency analyzer applied to a feature list *)

MaxAdj == 3             \* number of features given to the analyzer

\* the shipped answers of the three geometric tests
Placeholder == [distance |-> PLACEHOLDER_DISTANCE, contained |-> FALSE, overlap |-> FALSE]

\* answers of the geometric tests for one pair of features
PairSet ==
    {Placeholder,
     [distance |-> 2, contained |-> TRUE, overlap |-> TRUE],
     [distance |-> proximity_threshold, contained |-> FALSE, overlap |-> FALSE],
     [distance |-> PLACEHOLDER_DISTANCE, contained |-> TRUE, overlap |-> FALSE],
     [distance |-> PLACEHOLDER_DISTANCE, contained |-> FALSE, overlap |-> TRUE]}

\* the lists holding each of the ids 1..n once, in any order
IdLists(n) == {l \in [1..n -> 1..n] : \A a, b \in 1..n : a # b => l[a] # l[b]}

PairsOf(n) == {PairOf(a, b) : a, b \in 1..n} \ {{a} : a \in 1..n}

InitAdj ==
    /\ pc = "constructed"
    /\ \E n \in 0..MaxAdj :
          \E l \in IdLists(n) : \E g \in [PairsOf(n) -> PairSet] :
              adj = [features |-> l, geometry |-> g]
    /\ relationships = <<>>
    /\ clusters = <<>>
    /\ NoRecognizer /\ NoClassifier /\ NoEngine /\ NoScoring

\* relationships = analyzer.analyze_adjacency(features)
AnalyzeAdjacency ==
    /\ pc = "constructed"
    /\ relationships' = AdjacencyAnalyzer_analyze_adjacency(adj.features, adj.geometry)
    /\ pc' = "analyzed"
    /\ UNCHANGED <<features, patterns, props, classifications, adj, clusters,
                   shape, feature_counter, all_features, runs,
                   decisions, scores, metrics, calls>>

\* clusters = analyzer.find_feature_clusters(features)
FindFeatureClusters ==
    /\ pc = "analyzed"
    /\ clusters' = AdjacencyAnalyzer_find_feature_clusters(adj.features, adj.geometry)
    /\ pc' = "clustered"
    /\ UNCHANGED <<features, patterns, props, classifications, adj, relationships,
                   shape, feature_counter, all_features, runs,
                   decisions, scores, metrics, calls>>

NextAdj == AnalyzeAdjacency \/ FindFeatureClusters

SpecAdj == InitAdj /\ [][NextAdj]_vars

AdjIds == Range(adj.features)

\* a and b are joined by one relationship
Linked(a, b) ==
    \E k \in 1..Len(relationships) :
        {relationships[k].feature1_id, relationships[k].feature2_id} = {a, b}

\* the set of ids a chain of relationships reaches from the ids of S
RECURSIVE Reach(_)
Reach(S) ==
    LET T == S \cup {b \in AdjIds : \E a \in S : Linked(a, b)}
    IN  IF T = S THEN S ELSE Reach(T)

\* C3: find_feature_clusters returns the connected components of size >= 2 of
\* the relationship graph: two features are in one returned cluster exactly
\* when a chain of relationships links them; clusters are pairwise disjoint
\* and none has fewer than 2 members.
C3_ClustersAreComponents ==
    pc = "clustered" =>
        /\ \A a, b \in AdjIds : a # b =>
              ((\E k \in 1..Len(clusters) : {a, b} \subseteq Range(clusters[k]))
                  <=> b \in Reach({a}))
        /\ \A k, m \in 1..Len(clusters) :
              k # m => Range(clusters[k]) \cap Range(clusters[m]) = {}
        /\ \A k \in 1..Len(clusters) : Cardinality(Range(clusters[k])) >= 2

IsAscending(l) == \A a, b \in 1..Len(l) : a < b => l[a] < l[b]

\* the index of a feature id in the list given to the analyzer
IndexOf(fid) == CHOOSE i \in 1..Len(adj.features) : adj.features[i] = fid

-----------------------------------------------------------------------------
(* The engine run on a shape, more than once *)

MaxShape == 3           \* edges, faces and basic features of the shape, together
MaxRuns == 2            \* calls of recognize_all_advanced_features

EdgeSet == {"Helix", "Line"}

Cylinder(radius, axis) == [type |-> "Cylinder", radius |-> radius, axis |-> axis,
                           sink_angle |-> 0, z |-> 0, area |-> 0, width |-> 0, length |-> 0]
Cone(sink_angle) == [type |-> "Cone", radius |-> 0, axis |-> <<0, 0, 1>>,
                     sink_angle |-> sink_angle, z |-> 0, area |-> 0, width |-> 0, length |-> 0]
Plane(z, area, width, length) ==
    [type |-> "Plane", radius |-> 0, axis |-> <<0, 0, 1>>,
     sink_angle |-> 0, z |-> z, area |-> area, width |-> width, length |-> length]

FaceSet ==
    {Cylinder(30, <<0, 0, 1>>), Cylinder(50, <<0, 0, 1>>), Cylinder(50, <<1, 0, 0>>),
     Cone(SINK_ANGLE_MIN), Cone(900), Cone(SINK_ANGLE_MAX),
     Plane(0, 2000, 400, 500), Plane(20, 100, 100, 100), Plane(5, 200, 100, 200)}

BasicSet ==
    {[feature_type |-> "Through Hole", center |-> <<12, 0, 0>>, width |-> 0, depth |-> 100],
     [feature_type |-> "Rectangular Pocket", center |-> NoCenter, width |-> 100, depth |-> 50],
     [feature_type |-> "Rectangular Pocket", center |-> NoCenter, width |-> 200, depth |-> 80]}

\* the things a shape is made of, tagged by kind
ElementSet == {[kind |-> "edge", item |-> <<e>>] : e \in EdgeSet}
              \cup {[kind |-> "face", item |-> <<f>>] : f \in FaceSet}
              \cup {[kind |-> "basic", item |-> <<b>>] : b \in BasicSet}

SeqsUpTo(S, n) == UNION {[1..m -> S] : m \in 0..n}

\* the items of one kind among the elements, in order
RECURSIVE ItemsOf(_, _)
ItemsOf(els, kind) ==
    IF els = <<>> THEN <<>>
    ELSE (IF Head(els).kind = kind THEN Head(els).item ELSE <<>>)
         \o ItemsOf(Tail(els), kind)

ShapeOf(els) == [loaded |-> FALSE, loadable |-> TRUE,
                 edges |-> ItemsOf(els, "edge"), faces |-> ItemsOf(els, "face"),
                 basic |-> ItemsOf(els, "basic")]

\* a file that does not load leaves self.shape None
Unloadable == [loaded |-> FALSE, loadable |-> FALSE,
               edges |-> <<>>, faces |-> <<>>, basic |-> <<>>]

InitEngine ==
    /\ pc = "constructed"
    /\ shape \in {Unloadable} \cup {ShapeOf(els) : els \in SeqsUpTo(ElementSet, MaxShape)}
    /\ feature_counter = INITIAL_FEATURE_COUNTER
    /\ all_features = <<>>
    /\ patterns = <<>>
    /\ runs = <<>>
    /\ calls = <<>>
    /\ features = <<>>
    /\ NoClassifier /\ NoAnalyzer /\ NoScoring

\* engine.recognize_all_advanced_features() returning its list
RecognizeAllAdvancedFeatures ==
    /\ Len(runs) < MaxRuns
    /\ shape.loaded \/ shape.loadable
    /\ LET detected == AllDetected(shape, feature_counter)
           found == PatternRecognizer_recognize_all_patterns(detected.features)
           result == AssignPatternIds(detected.features, found)
       IN  /\ shape' = [shape EXCEPT !.loaded = TRUE]
           /\ feature_counter' = detected.counter
           /\ patterns' = found
           /\ all_features' = result
           /\ runs' = Append(runs, [raised |-> FALSE, features |-> result,
                                    patterns |-> found])
    /\ pc' = "returned"
    /\ UNCHANGED <<features, props, classifications, adj, relationships, clusters,
                   decisions, scores, metrics, calls>>

\* engine.recognize_all_advanced_features() raising ValueError: the file does
\* not load
RecognizeRaises ==
    /\ Len(runs) < MaxRuns
    /\ ~shape.loaded /\ ~shape.loadable
    /\ runs' = Append(runs, [raised |-> TRUE, features |-> <<>>, patterns |-> <<>>])
    /\ pc' = "raised"
    /\ UNCHANGED <<features, patterns, props, classifications, adj, relationships,
                   clusters, shape, feature_counter, all_features,
                   decisions, scores, metrics, calls>>

NextEngine == RecognizeAllAdvancedFeatures \/ RecognizeRaises

SpecEngine == InitEngine /\ [][NextEngine]_vars

Returned == {r \in 1..Len(runs) : ~runs[r].raised}

\* C4: no two features of a list returned by recognize_all_advanced_features
\* have the same feature_id.
C4_UniqueFeatureIds ==
    \A r \in Returned :
        \A a, b \in 1..Len(runs[r].features) :
            a # b => runs[r].features[a].feature_id # runs[r].features[b].feature_id

TypesOf(fs) == {fs[k].feature_type : k \in 1..Len(fs)}

\* C4 witness: a returned list holding basic pockets, a T-slot (whose detector
\* has detected the pockets anew) and a feature of a face detector.
C4_Witness ==
    \E r \in Returned :
        /\ {"Rectangular Pocket", "T-Slot"} \subseteq TypesOf(runs[r].features)
        /\ TypesOf(runs[r].features)
              \cap {"Countersink Hole", "Counterbore Hole", "Circular Boss"} # {}
        /\ Len(runs[r].features) >= 4

\* C5: two calls of recognize_all_advanced_features over the same shape return
\* the same features with the same feature ids and the same patterns.
C5_SameResultTwice ==
    (Len(runs) = 2 /\ Returned = {1, 2}) => runs[1] = runs[2]

-----------------------------------------------------------------------------
(* The pattern recognizer applied to the layouts of the test scenarios:    *)
(* features of one type on a circle, on a grid, and mirrored about the     *)
(* planes through the origin (units of 0.05 mm)                            *)

LayoutType == {"Through Hole"}

\* points of the circle of radius 25 about the origin, and its centre
CircleSet == {<<25, 0, 0>>, <<0, 25, 0>>, <<-25, 0, 0>>, <<15, 20, 0>>,
              <<-7, -24, 0>>, <<0, 0, 0>>}

\* a grid of step 15 in X and 20 in Y, a point of another Z plane
GridSet == {<<0, 0, 0>>, <<15, 0, 0>>, <<0, 20, 0>>, <<15, 20, 0>>,
            <<30, 0, 0>>, <<0, 0, 30>>}

\* reflections of (10,5,0), exact, within the tolerance and at the tolerance
MirrorSet == {<<10, 5, 0>>, <<-10, 5, 0>>, <<-10, 5, 6>>, <<-10, 5, 10>>,
              <<10, -5, 0>>, <<0, 5, 0>>}

\* points of one Z plane and a point far above it
TiltedSet == {<<0, 0, 0>>, <<15, 0, 0>>, <<0, 20, 0>>, <<15, 20, 0>>, <<0, 0, 60>>}

\* Scenario D in mm: two holes at (10,5,0) and (-10,5,0)
ScenarioD == <<[feature_type |-> "Through Hole", center |-> <<200, 100, 0>>],
               [feature_type |-> "Through Hole", center |-> <<-200, 100, 0>>]>>

InitLayouts ==
    /\ pc = "constructed"
    /\ features \in {WithIds(fl) :
          fl \in FeatureLists(CircleSet, LayoutType, MaxFeatures)
                 \cup FeatureLists(GridSet, LayoutType, MaxFeatures)
                 \cup FeatureLists(MirrorSet, LayoutType, MaxFeatures)
                 \cup FeatureLists(TiltedSet, LayoutType, MaxFeatures)
                 \cup {ScenarioD}}
    /\ patterns = <<>>
    /\ NoClassifier /\ NoAnalyzer /\ NoEngine /\ NoScoring

SpecLayouts == InitLayouts /\ [][NextPatterns]_vars

\* all centres in one Z plane
CommonZ(fs) == \A a, b \in 1..Len(fs) : Centers(fs)[a][3] = Centers(fs)[b][3]

\* twice the signed area of the triangle a, b, c in the XY plane
Area2(a, b, c) == a[1] * (b[2] - c[2]) + b[1] * (c[2] - a[2]) + c[1] * (a[2] - b[2])

\* the in-circle determinant: 0 exactly when p is on the circle through a, b, c
InCircleDet(a, b, c, p) ==
    LET ax == a[1] - p[1]  ay == a[2] - p[2]  al == ax * ax + ay * ay
        bx == b[1] - p[1]  by == b[2] - p[2]  bl == bx * bx + by * by
        cx == c[1] - p[1]  cy == c[2] - p[2]  cl == cx * cx + cy * cy
    IN  ax * (by * cl - bl * cy) - ay * (bx * cl - bl * cx) + al * (bx * cy - by * cx)

\* the centres lie on the circle through three of them that are not collinear
OnCircleOfThree(fs) ==
    LET c == Centers(fs)
    IN  \E i, j, k \in 1..Len(fs) :
            /\ Area2(c[i], c[j], c[k]) # 0
            /\ \A m \in 1..Len(fs) : InCircleDet(c[i], c[j], c[k], c[m]) = 0

\* the centres lie on one circle: as above, or they are at most two points
OnOneCircle(fs) ==
    \/ OnCircleOfThree(fs)
    \/ Cardinality(Range(Centers(fs))) <= 2

\* exactly one circular pattern, over all features, with count n and angle 360/n
OneCircularPatternOverAll ==
    LET cs == PatternsOfType("CIRCULAR")
    IN  /\ Len(cs) = 1
        /\ PatternIds(cs[1]) = FeatureIds(features)
        /\ Len(cs[1].feature_ids) = Len(features)
        /\ cs[1].pattern_count = Len(features)
        /\ FracEq(cs[1].angle, Frac(360, Len(features)))

\* C11 as stated: n >= 3 same-type features on one circle in a common Z plane
\* give exactly one circular pattern holding all n, with pattern_count n and
\* angle 360/n; a type group gives at most one circular pattern.
C11_OnCircleOneCircular ==
    Recognized =>
        /\ (SameType(features) => Len(PatternsOfType("CIRCULAR")) <= 1)
        /\ (Len(features) >= 3 /\ SameType(features) /\ CommonZ(features)
              /\ OnOneCircle(features)) => OneCircularPatternOverAll

\* C11 amended: the same for n >= 3 features on the circle through three of
\* them that are not collinear (the determinant of the three is not below its
\* limit).
C11_OnCircleOfThreeOneCircular ==
    Recognized =>
        /\ (SameType(features) => Len(PatternsOfType("CIRCULAR")) <= 1)
        /\ (Len(features) >= 3 /\ SameType(features) /\ CommonZ(features)
              /\ OnCircleOfThree(features)) => OneCircularPatternOverAll

\* C11 witness: four features at four different points of one circle, the first
\* three not collinear, recognized as one circular pattern.
C11_Witness ==
    /\ Recognized
    /\ Len(features) = 4
    /\ Cardinality(Range(Centers(features))) = 4
    /\ OnCircleOfThree(features)
    /\ Len(PatternsOfType("CIRCULAR")) = 1

\* the offsets along an axis of the pairs i < j that are more than 0.1 apart
\* on that axis, as the set of (pair, offset)
Offsets(fs, axis) ==
    LET c == Centers(fs)
    IN  {<<i, j, Abs(c[j][axis] - c[i][axis])>> : i, j \in 1..Len(fs)}
        \cap {t \in (1..Len(fs)) \X (1..Len(fs)) \X (0..200) : t[1] < t[2] /\ t[3] > TOO_CLOSE}

OffsetValues(fs, axis) == {t[3] : t \in Offsets(fs, axis)}
OffsetCount(fs, axis, v) == Cardinality({t \in Offsets(fs, axis) : t[3] = v})

\* different offset values are at least the tolerance apart, so that no two of
\* them are grouped together
WellSeparated(fs, axis) ==
    \A v, w \in OffsetValues(fs, axis) : v # w => Abs(v - w) >= POSITION_TOLERANCE

\* v occurs at least twice among the offsets and more often than any other value
IsMode(fs, axis, v) ==
    /\ v \in OffsetValues(fs, axis)
    /\ OffsetCount(fs, axis, v) >= 2
    /\ \A w \in OffsetValues(fs, axis) \ {v} :
          OffsetCount(fs, axis, w) < OffsetCount(fs, axis, v)

\* no offset value occurs twice
NoRepeatedOffset(fs, axis) ==
    \A v \in OffsetValues(fs, axis) : OffsetCount(fs, axis, v) < 2

\* exactly one grid pattern, over all features of the list, of the given spacing
OneGridPatternOverAll(spacing) ==
    LET gs == PatternsOfType("GRID")
    IN  /\ Len(gs) = 1
        /\ gs[1].feature_ids = [k \in 1..Len(features) |-> features[k].feature_id]
        /\ gs[1].pattern_count = Len(features)
        /\ FracEq(gs[1].spacing, spacing)

\* C12: a type group of at least 4 features in one Z plane with a dominant X
\* offset domX and a dominant Y offset domY gives exactly one grid pattern over
\* all features of the group, with spacing min(domX, domY); fewer than 4
\* features, or no dominant offset in X or in Y, give no grid pattern.  The
\* dominant offset is the one _find_dominant_spacing returns; when the offset
\* values are at least the tolerance apart it is the value occurring most often
\* and at least twice.
C12_GridOverAll ==
    (Recognized /\ SameType(features) /\ CommonZ(features)) =>
        LET c == Centers(features)
            domX == PatternRecognizer_find_dominant_spacing(GridSpacings(c, 1, 1, 2))
            domY == PatternRecognizer_find_dominant_spacing(GridSpacings(c, 2, 1, 2))
        IN  /\ Len(PatternsOfType("GRID")) <= 1
            /\ Len(features) < MIN_GRID => PatternsOfType("GRID") = <<>>
            /\ (domX = NoSpacing \/ domY = NoSpacing) => PatternsOfType("GRID") = <<>>
            /\ (Len(features) >= MIN_GRID /\ domX # NoSpacing /\ domY # NoSpacing)
                  => OneGridPatternOverAll(IF FracLeq(domX, domY) THEN domX ELSE domY)
            /\ (WellSeparated(features, 1) /\ WellSeparated(features, 2)) =>
                  /\ (NoRepeatedOffset(features, 1) \/ NoRepeatedOffset(features, 2))
                        => PatternsOfType("GRID") = <<>>
                  /\ \A vx \in OffsetValues(features, 1), vy \in OffsetValues(features, 2) :
                        (Len(features) >= MIN_GRID /\ IsMode(features, 1, vx)
                            /\ IsMode(features, 2, vy))
                           => OneGridPatternOverAll(Frac(Min2(vx, vy), 1))

\* C12 witness: the 2x2 grid of step 15 in X and 20 in Y, recognized as one grid
\* pattern of spacing 15.
C12_Witness ==
    /\ Recognized
    /\ Len(features) = 4
    /\ Range(Centers(features)) = {<<0, 0, 0>>, <<15, 0, 0>>, <<0, 20, 0>>, <<15, 20, 0>>}
    /\ IsMode(features, 1, 15) /\ IsMode(features, 2, 20)
    /\ Len(PatternsOfType("GRID")) = 1
    /\ FracEq(PatternsOfType("GRID")[1].spacing, Frac(15, 1))

\* the coordinate a reflection in the named plane negates
NormalAxis(plane) == CASE plane = "XY" -> 3 [] plane = "XZ" -> 2 [] plane = "YZ" -> 1

Reflect(p, plane) ==
    [k \in 1..3 |-> IF k = NormalAxis(plane) THEN 0 - p[k] ELSE p[k]]

\* features i and j of the list are reflections of each other in the plane,
\* within the position tolerance
AreReflections(fs, plane, i, j) ==
    LET c == Centers(fs)
    IN  Dist2(c[j], Reflect(c[i], plane)) < POSITION_TOLERANCE * POSITION_TOLERANCE

MirrorPatternsOf(plane) ==
    SelectSeq(PatternsOfType("MIRROR"), LAMBDA p : p.direction = <<plane>>)

IndexOfId(fs, id) == CHOOSE k \in 1..Len(fs) : fs[k].feature_id = id

\* the feature ids of the pattern are pairs of reflected features, no feature
\* occurs twice, and no two features left out are reflections of each other
IsPairing(fs, plane, ids) ==
    /\ Len(ids) % 2 = 0
    /\ \A a, b \in 1..Len(ids) : a # b => ids[a] # ids[b]
    /\ \A a \in 1..Len(ids) : ids[a] \in FeatureIds(fs)
    /\ \A p \in 1..(Len(ids) \div 2) :
          /\ IndexOfId(fs, ids[2 * p - 1]) < IndexOfId(fs, ids[2 * p])
          /\ AreReflections(fs, plane, IndexOfId(fs, ids[2 * p - 1]),
                            IndexOfId(fs, ids[2 * p]))
    /\ \A i, j \in 1..Len(fs) :
          (i < j /\ AreReflections(fs, plane, i, j))
             => \E a \in 1..Len(ids) : ids[a] \in {fs[i].feature_id, fs[j].feature_id}

\* C13: for each of the planes XY, XZ, YZ the features of one type give one
\* mirror pattern exactly when some pair of them has centres that are
\* reflections of each other within the tolerance; the pattern lists the matched
\* pairs only, no feature twice; the holes at (10, 5, 0) and (-10, 5, 0) give
\* exactly one mirror pattern, for the YZ plane, with 2 feature ids.
C13_MirrorPairs ==
    (Recognized /\ SameType(features)) =>
        /\ \A plane \in {"XY", "XZ", "YZ"} :
              LET ms == MirrorPatternsOf(plane)
              IN  /\ Len(ms) <= 1
                  /\ Len(ms) = 1 <=>
                        \E i, j \in 1..Len(features) :
                            i < j /\ AreReflections(features, plane, i, j)
                  /\ Len(ms) = 1 => IsPairing(features, plane, ms[1].feature_ids)
        /\ Len(PatternsOfType("MIRROR")) =
              Len(MirrorPatternsOf("XY")) + Len(MirrorPatternsOf("XZ"))
                 + Len(MirrorPatternsOf("YZ"))
        /\ Centers(features) = <<<<200, 100, 0>>, <<-200, 100, 0>>>> =>
              /\ Len(PatternsOfType("MIRROR")) = 1
              /\ PatternsOfType("MIRROR")[1].direction = <<"YZ">>
              /\ Len(PatternsOfType("MIRROR")[1].feature_ids) = 2

\* C13 witness: three features, two of them matched as a pair of the YZ plane
\* and the third left out of the pattern.
C13_Witness ==
    /\ Recognized
    /\ Len(features) = 3
    /\ Len(MirrorPatternsOf("YZ")) = 1
    /\ Len(MirrorPatternsOf("YZ")[1].feature_ids) = 2

\* the two holes of the scenario, recognized as one mirror pattern
ScenarioDRecognized ==
    /\ Recognized
    /\ Centers(features) = <<<<200, 100, 0>>, <<-200, 100, 0>>>>
    /\ Len(MirrorPatternsOf("YZ")) = 1

\* the number of features of the list that have the given type
TypeCount(fs, t) == Cardinality({k \in 1..Len(fs) : fs[k].feature_type = t})

EveryTypeOnce(fs) == \A k \in 1..Len(fs) : TypeCount(fs, fs[k].feature_type) = 1

\* C14: a type group with fewer than 2 features contributes no pattern: every
\* feature a pattern lists has a type that at least 2 features of the list
\* have, and a list in which every type occurs once, or an empty list, gives
\* the empty list of patterns as the result of the call.
C14_SmallGroupsNoPattern ==
    Recognized =>
        /\ \A a \in 1..Len(patterns) : \A k \in 1..Len(features) :
              features[k].feature_id \in PatternIds(patterns[a])
                 => TypeCount(features, features[k].feature_type) >= MIN_PATTERN_COUNT
        /\ EveryTypeOnce(features) => patterns = <<>>

\* C14 witness: two features of different types at mirrored positions, and no
\* pattern returned.
C14_Witness ==
    /\ Recognized
    /\ Len(features) = 2
    /\ EveryTypeOnce(features)
    /\ Centers(features) = <<<<12, 0, 0>>, <<-12, 0, 0>>>>
    /\ patterns = <<>>

-----------------------------------------------------------------------------
(* The detectors and fuzzy_classify on degenerate input *)

\* centres on one line: coincident when repeated, 0.05 mm apart (closer than
\* 0.1), and 0.6 mm and 1.2 mm along the line
DegenerateSet == {<<0, 0, 0>>, <<1, 0, 0>>, <<12, 0, 0>>, <<24, 0, 0>>}

\* property dicts with a diameter of 0 or a depth of 0
DegenerateProps ==
    {p \in PropSet : \/ Get(p, "diameter", DEFAULT_DIAMETER) = 0
                     \/ Get(p, "depth", DEFAULT_DEPTH) = 0}

InitDegenerate ==
    /\ pc = "constructed"
    /\ features \in {WithIds(fl) : fl \in FeatureLists(DegenerateSet, LayoutType, MaxFeatures)}
    /\ patterns = <<>>
    /\ props \in {<<p>> : p \in DegenerateProps}
    /\ classifications = <<>>
    /\ NoAnalyzer /\ NoEngine /\ NoScoring

NextDegenerate == RecognizeAllPatterns \/ FuzzyClassify

SpecDegenerate == InitDegenerate /\ [][NextDegenerate]_vars

\* every triple of centres is collinear in the XY plane
AllCollinear(fs) ==
    LET centers == Centers(fs)
    IN  \A i, j, k \in 1..Len(fs) : Area2(centers[i], centers[j], centers[k]) = 0

\* two features of the list have the same centre
SomeCoincident(fs) ==
    \E i, j \in 1..Len(fs) : i # j /\ Centers(fs)[i] = Centers(fs)[j]

\* two features of the list are closer than 0.1 and not coincident
SomeTooClose(fs) ==
    \E i, j \in 1..Len(fs) :
        /\ Centers(fs)[i] # Centers(fs)[j]
        /\ Dist2(Centers(fs)[i], Centers(fs)[j]) < TOO_CLOSE * TOO_CLOSE

\* C15: on degenerate input (coincident centres, all centres collinear,
\* centres closer than 0.1) no division by zero is reached in the detectors:
\* no returned quotient has a zero divisor and no
\* line direction is normalised by a zero length; collinear triples give no
\* circle centre and no circular pattern; fuzzy_classify is possible for a
\* diameter of 0 and for a depth of 0, divides by a non-zero diameter + 0.001 and
\* returns one of its two classes.
C15_NoThrowOnDegenerate ==
    /\ \A a \in 1..Len(patterns) :
          /\ patterns[a].spacing.den # 0
          /\ patterns[a].angle.den # 0
          /\ patterns[a].confidence.den # 0
          /\ patterns[a].pattern_type = "LINEAR" => patterns[a].direction # <<0, 0, 0>>
    /\ LET centers == Centers(features)
       IN  \A i, j, k \in 1..Len(features) :
              Area2(centers[i], centers[j], centers[k]) = 0
                 => PatternRecognizer_calculate_circle_center_3d(
                        centers[i], centers[j], centers[k])
                      = NoValue
    /\ AllCollinear(features) => PatternsOfType("CIRCULAR") = <<>>
    /\ Len(classifications) < Len(props) => ENABLED FuzzyClassify
    /\ \A k \in Classified :
          /\ AspectRatio(props[k]).den # 0
          /\ classifications[k].confidence.den # 0
          /\ classifications[k].primary_classification \in {"hole", "pocket"}

\* C15 witness: four collinear features, two of them coincident and two closer
\* than 0.1, recognized with a linear pattern found, and a dict of diameter 0
\* classified.
C15_Witness ==
    /\ Len(features) = 4
    /\ AllCollinear(features) /\ SomeCoincident(features) /\ SomeTooClose(features)
    /\ PatternsOfType("LINEAR") # <<>>
    /\ Len(classifications) = 1
    /\ Get(props[1], "diameter", DEFAULT_DIAMETER) = 0

-----------------------------------------------------------------------------
(* The relationship of each pair of features *)

\* the relationships returned for the features a and b, in either order
RelationshipsOf(a, b) ==
    SelectSeq(relationships,
              LAMBDA r : PairOf(r.feature1_id, r.feature2_id) = PairOf(a, b))

\* the relationship type the answers of the three tests call for, by precedence
ExpectedType(g) ==
    IF g.distance < 5 THEN "adjacent"
    ELSE IF g.contained THEN "contained"
    ELSE IF g.overlap THEN "overlapping"
    ELSE "none"

\* the strength that goes with the type: 1 - d/5, 1.0 or 0.8
ExpectedStrength(g) ==
    CASE ExpectedType(g) = "adjacent" -> Frac(5 - g.distance, 5)
      [] ExpectedType(g) = "contained" -> Frac(1, 1)
      [] ExpectedType(g) = "overlapping" -> Frac(4, 5)

\* C16: each pair of different features gets its relationship by strict
\* precedence: adjacent with strength 1 - d/threshold when d < 5, otherwise
\* contained (1.0) when the containment test succeeds, otherwise overlapping
\* (0.8) when the overlap test succeeds, otherwise no relationship; every
\* strength lies in [0,1].
C16_RelationshipPrecedence ==
    pc # "constructed" =>
        /\ \A a, b \in AdjIds : a # b =>
              LET g == adj.geometry[PairOf(a, b)]
                  rs == RelationshipsOf(a, b)
              IN  IF ExpectedType(g) = "none" THEN rs = <<>>
                  ELSE /\ Len(rs) = 1
                       /\ rs[1].relationship_type = ExpectedType(g)
                       /\ FracEq(rs[1].strength, ExpectedStrength(g))
        /\ \A k \in 1..Len(relationships) : InUnitInterval(relationships[k].strength)

\* C16 witness: an analysis in which one pair is adjacent although its
\* containment test succeeds, and another pair at distance 5 has no relationship.
C16_Witness ==
    /\ pc = "analyzed"
    /\ \E k \in 1..Len(relationships) :
          /\ relationships[k].relationship_type = "adjacent"
          /\ adj.geometry[PairOf(relationships[k].feature1_id,
                                 relationships[k].feature2_id)].contained
    /\ \E a, b \in AdjIds :
          /\ a # b
          /\ adj.geometry[PairOf(a, b)].distance = 5
          /\ RelationshipsOf(a, b) = <<>>

-----------------------------------------------------------------------------
(* advanced_algorithms.py: FeatureClassifier.multi_criteria_decision       *)
(* A feature is a function on the names of the attributes it has.  A       *)
(* weight is an integer number of hundredths, a criterion score a number   *)
(* of halves (0, 1, 2 for 0.0, 0.5, 1.0), so score * weight is a number of *)
(* two-hundredths and the weighted score the fraction sum / 200.           *)

DEFAULT_WEIGHT == 33         \* criteria_weights.get(criterion, 0.33)
ACCEPT_THRESHOLD == 60       \* weighted_score > 0.6
LARGE_AREA == 1000           \* feature.area > 1000
MEDIUM_AREA == 100           \* feature.area > 100
SCORE_UNIT == 2              \* a score of 1.0, in halves

HasAttr(feature, name) == name \in DOMAIN feature

\* criteria_scores as its items in insertion order
CriteriaScores(feature) ==
    <<[k |-> "cylindrical",
       v |-> IF HasAttr(feature, "diameter") /\ feature.diameter > 0
             THEN SCORE_UNIT ELSE 0]>>
    \o (IF HasAttr(feature, "depth") /\ HasAttr(feature, "width")
        THEN <<[k |-> "deep",
                v |-> IF feature.depth > feature.width THEN SCORE_UNIT ELSE 0]>>
        ELSE <<>>)
    \o (IF HasAttr(feature, "area")
        THEN <<[k |-> "large",
                v |-> IF feature.area > LARGE_AREA THEN SCORE_UNIT
                      ELSE IF feature.area > MEDIUM_AREA THEN 1
                      ELSE 0]>>
        ELSE <<>>)

\* (mutant) the caller's weight is ignored
CriterionWeight_AlwaysDefault(criteria_weights, criterion) == DEFAULT_WEIGHT

\* weight = criteria_weights.get(criterion, 0.33)
CriterionWeight(criteria_weights, criterion) ==
    Get(criteria_weights, criterion, DEFAULT_WEIGHT)

\* the loop "weighted_score += score * weight" over the items, in two-hundredths
RECURSIVE WeightedScore(_, _)
WeightedScore(items, criteria_weights) ==
    IF items = <<>> THEN 0
    ELSE Head(items).v * CriterionWeight(criteria_weights, Head(items).k)
         + WeightedScore(Tail(items), criteria_weights)

FeatureClassifier_multi_criteria_decision(feature, criteria_weights) ==
    LET criteria_scores == CriteriaScores(feature)
        weighted_score == WeightedScore(criteria_scores, criteria_weights)
    IN  [criteria_scores |-> criteria_scores,
         weighted_score |-> Frac(weighted_score, 100 * SCORE_UNIT),
         decision |-> IF weighted_score > ACCEPT_THRESHOLD * SCORE_UNIT
                      THEN "accept" ELSE "uncertain"]

-----------------------------------------------------------------------------
(* multi_criteria_decision called with one pair of arguments, repeatedly *)

\* the union of two functions with disjoint domains
Merge(f, g) == [k \in DOMAIN f \cup DOMAIN g |-> IF k \in DOMAIN f THEN f[k] ELSE g[k]]

WithOptional(objs, name, values) ==
    objs \cup {Merge(o, [k \in {name} |-> v]) : o \in objs, v \in values}

\* Scenario G of the test suite: TestFeature and its weights
ScenarioGFeature == [diameter |-> 8, depth |-> 20, width |-> 15, area |-> 150]
ScenarioGWeights == [cylindrical |-> 40, deep |-> 40, large |-> 20]

DecisionFeatureSet ==
    WithOptional(
        WithOptional({[width |-> 15], [depth |-> 20], [depth |-> 20, width |-> 15],
                      [depth |-> 15, width |-> 15]},
                     "diameter", {0, 8}),
        "area", {MEDIUM_AREA, 150, LARGE_AREA, LARGE_AREA + 1})

WeightSet ==
    {ScenarioGWeights,
     [threaded |-> 50],
     [cylindrical |-> ACCEPT_THRESHOLD],
     [cylindrical |-> ACCEPT_THRESHOLD, deep |-> 0, large |-> 1]}

\* the sum is 0.6 in exact arithmetic and has more than one non-zero term: the
\* floating point sum is 0.6000000000000001 there, which the integers do not show
RoundingTie(feature, criteria_weights) ==
    LET items == CriteriaScores(feature)
    IN  /\ WeightedScore(items, criteria_weights) = ACCEPT_THRESHOLD * SCORE_UNIT
        /\ Cardinality({a \in 1..Len(items) :
              items[a].v * CriterionWeight(criteria_weights, items[a].k) # 0}) > 1

InitDecision ==
    /\ pc = "constructed"
    /\ \E f \in DecisionFeatureSet, w \in WeightSet :
          /\ ~RoundingTie(f, w)
          /\ decisions = [feature |-> f, criteria_weights |-> w, results |-> <<>>]
    /\ scores = <<>> /\ metrics = <<>>
    /\ NoRecognizer /\ NoClassifier /\ NoAnalyzer /\ NoEngine

\* decision = feature_classifier.multi_criteria_decision(feature, criteria_weights)
MultiCriteriaDecision ==
    /\ Len(decisions.results) < MaxCalls
    /\ decisions' = [decisions EXCEPT !.results =
          Append(@, FeatureClassifier_multi_criteria_decision(
                        decisions.feature, decisions.criteria_weights))]
    /\ pc' = "decided"
    /\ UNCHANGED <<features, patterns, props, classifications, adj, relationships,
                   clusters, shape, feature_counter, all_features, runs,
                   scores, metrics, calls>>

NextDecision == MultiCriteriaDecision

SpecDecision == InitDecision /\ [][NextDecision]_vars

\* the criteria the call evaluates for the feature
EvaluatedCriteria(feature) ==
    {"cylindrical"}
    \cup (IF {"depth", "width"} \subseteq DOMAIN feature THEN {"deep"} ELSE {})
    \cup (IF "area" \in DOMAIN feature THEN {"large"} ELSE {})

\* the weight of a criterion: the caller's, or 0.33 when the caller gave none
WeightOf(criteria_weights, criterion) ==
    IF criterion \in DOMAIN criteria_weights THEN criteria_weights[criterion] ELSE 33

\* the sum of term(c) over the criteria c of the set
SumOver(S, term(_)) ==
    (IF "cylindrical" \in S THEN term("cylindrical") ELSE 0)
    + (IF "deep" \in S THEN term("deep") ELSE 0)
    + (IF "large" \in S THEN term("large") ELSE 0)

\* the score a result gives for a criterion, in halves
ScoreIn(result, criterion) ==
    LET a == CHOOSE b \in 1..Len(result.criteria_scores) :
                 result.criteria_scores[b].k = criterion
    IN  result.criteria_scores[a].v

DecisionAtThreshold ==
    /\ pc = "decided"
    /\ FracEq(decisions.results[1].weighted_score, Frac(6, 10))
    /\ decisions.results[1].decision = "uncertain"

-----------------------------------------------------------------------------
(* advanced_algorithms.py: MachinabilityScorer.score_feature               *)
(* The score is an integer number of halves (2 for 1.0, 3 for 1.5).  A     *)
(* string is the sequence of its characters.                               *)

BASE_SCORE == 2              \* score = 1.0
DEEP_RATIO == 3              \* feature.depth > feature.diameter * 3
DEEP_INCREMENT == 4          \* score += 2.0
SMALL_DIAMETER == 3          \* feature.diameter < 3.0
SMALL_INCREMENT == 3         \* score += 1.5
HARD_INCREMENT == 4          \* score += 2.0
TOLERANCE_INCREMENT == 2     \* score += 1.0
ACCESS_INCREMENT == 3        \* score += 1.5
MAX_SCORE == 20              \* min(score, 10.0)
EASY_BELOW == 6              \* score < 3
MODERATE_BELOW == 10         \* score < 5
DIFFICULT_BELOW == 14        \* score < 7

\* (mutant) the characters are left in their case
LowerChar_Unchanged(c) == c

\* str.lower() of one character, for the letters of the materials
LowerChar(c) ==
    CASE c = "H" -> "h" [] c = "A" -> "a" [] c = "R" -> "r" [] c = "D" -> "d"
      [] c = "C" -> "c" [] c = "B" -> "b" [] OTHER -> c

Lower(str) == [a \in 1..Len(str) |-> LowerChar(str[a])]

\* sub in str
Contains(sub, str) ==
    \E a \in 0..(Len(str) - Len(sub)) : SubSeq(str, a + 1, a + Len(sub)) = sub

\* _get_difficulty_label
MachinabilityScorer_get_difficulty_label(score) ==
    IF score < EASY_BELOW THEN "Easy"
    ELSE IF score < MODERATE_BELOW THEN "Moderate"
    ELSE IF score < DIFFICULT_BELOW THEN "Difficult"
    ELSE "Very Difficult"

\* the increments applied, in the order of the code, each with its factor
AppliedFactors(feature, material_hardness) ==
    (IF /\ HasAttr(feature, "depth") /\ HasAttr(feature, "diameter")
        /\ feature.depth > feature.diameter * DEEP_RATIO
     THEN <<[add |-> DEEP_INCREMENT, factor |-> "Deep feature (L/D > 3)"]>> ELSE <<>>)
    \o (IF HasAttr(feature, "diameter") /\ feature.diameter < SMALL_DIAMETER
        THEN <<[add |-> SMALL_INCREMENT, factor |-> "Small diameter (< 3mm)"]>> ELSE <<>>)
    \o (IF \/ Contains(<<"H", "R", "C">>, material_hardness)
           \/ Contains(<<"h", "a", "r", "d">>, Lower(material_hardness))
        THEN <<[add |-> HARD_INCREMENT, factor |-> "Hard material"]>> ELSE <<>>)
    \o (IF HasAttr(feature, "tolerance") /\ feature.tolerance = "Precision"
        THEN <<[add |-> TOLERANCE_INCREMENT, factor |-> "Tight tolerance"]>> ELSE <<>>)
    \o (IF /\ HasAttr(feature, "accessibility")
           /\ feature.accessibility \in {"Bottom", "Multi-axis"}
        THEN <<[add |-> ACCESS_INCREMENT, factor |-> "Poor accessibility"]>> ELSE <<>>)

MachinabilityScorer_score_feature(feature, material_hardness) ==
    LET applied == AppliedFactors(feature, material_hardness)
        score == BASE_SCORE + SumSeq([a \in 1..Len(applied) |-> applied[a].add])
    IN  [score |-> Frac(Min2(score, MAX_SCORE), 2),
         difficulty |-> MachinabilityScorer_get_difficulty_label(score),
         factors |-> [a \in 1..Len(applied) |-> applied[a].factor]]

-----------------------------------------------------------------------------
(* score_feature called with one pair of arguments, repeatedly *)

\* Scenario H of the test suite: MachinabilityFeature, scored for "250 HB"
ScenarioHFeature == [depth |-> 30, diameter |-> 6, tolerance |-> "Precision",
                     accessibility |-> "Bottom"]
ScenarioHMaterial == <<"2", "5", "0", " ", "H", "B">>

ScoredFeatureSet ==
    WithOptional(
        WithOptional({[feature_id |-> 1], [feature_id |-> 1, depth |-> 30],
                      [feature_id |-> 1, diameter |-> 2],
                      [feature_id |-> 1, diameter |-> SMALL_DIAMETER, depth |-> 9],
                      [feature_id |-> 1, diameter |-> 2, depth |-> 7],
                      [feature_id |-> 1, diameter |-> 6, depth |-> 18],
                      [feature_id |-> 1, diameter |-> 6, depth |-> 30]},
                     "tolerance", {"Precision", "Standard"}),
        "accessibility", {"Top", "Bottom", "Multi-axis"})
    \cup {ScenarioHFeature}

MaterialSet ==
    {ScenarioHMaterial,
     <<"4", "5", " ", "H", "R", "C">>,
     <<"H", "a", "r", "d", "e", "n", "e", "d">>,
     <<"h", "r", "c">>,
     <<"H", "A", "R", "D">>}

InitScorer ==
    /\ pc = "constructed"
    /\ \E f \in ScoredFeatureSet, m \in MaterialSet :
          scores = [feature |-> f, material_hardness |-> m, results |-> <<>>]
    /\ decisions = <<>> /\ metrics = <<>>
    /\ NoRecognizer /\ NoClassifier /\ NoAnalyzer /\ NoEngine

\* score_result = machinability_scorer.score_feature(feature, material_hardness)
ScoreFeature ==
    /\ Len(scores.results) < MaxCalls
    /\ scores' = [scores EXCEPT !.results =
          Append(@, MachinabilityScorer_score_feature(scores.feature,
                                                      scores.material_hardness))]
    /\ pc' = "scored"
    /\ UNCHANGED <<features, patterns, props, classifications, adj, relationships,
                   clusters, shape, feature_counter, all_features, runs,
                   decisions, metrics, calls>>

NextScorer == ScoreFeature

SpecScorer == InitScorer /\ [][NextScorer]_vars

\* the materials of the model that name a hardness in HRC or say "hard"
HardMaterials ==
    {<<"4", "5", " ", "H", "R", "C">>, <<"H", "a", "r", "d", "e", "n", "e", "d">>,
     <<"H", "A", "R", "D">>}

\* the increments the claim lists, as (amount in halves, applies)
BoolToInt(b) == IF b THEN 1 ELSE 0

DeepApplies(f) == {"depth", "diameter"} \subseteq DOMAIN f /\ f.depth > 3 * f.diameter
SmallApplies(f) == "diameter" \in DOMAIN f /\ f.diameter < 3
PrecisionApplies(f) == "tolerance" \in DOMAIN f /\ f.tolerance = "Precision"
AccessApplies(f) == "accessibility" \in DOMAIN f /\ f.accessibility \in {"Bottom", "Multi-axis"}

ExpectedHalves(f, m) ==
    2 + 4 * BoolToInt(DeepApplies(f)) + 3 * BoolToInt(SmallApplies(f))
      + 4 * BoolToInt(m \in HardMaterials) + 2 * BoolToInt(PrecisionApplies(f))
      + 3 * BoolToInt(AccessApplies(f))

ExpectedCount(f, m) ==
    BoolToInt(DeepApplies(f)) + BoolToInt(SmallApplies(f)) + BoolToInt(m \in HardMaterials)
      + BoolToInt(PrecisionApplies(f)) + BoolToInt(AccessApplies(f))

\* C18: the score is in [1,10] and is 1 plus 2 for depth > 3 x diameter, 1.5
\* for diameter < 3, 2 for a hard material, 1 for Precision tolerance and 1.5
\* for Bottom or Multi-axis accessibility; factors has one entry per applied
\* increment; the difficulty label matches the score: Easy below 3, Moderate
\* below 5, Difficult below 7, else Very Difficult.
C18_MachinabilityScore ==
    pc = "scored" =>
        \A a \in 1..Len(scores.results) :
            LET r == scores.results[a]
                f == scores.feature
                m == scores.material_hardness
            IN  /\ FracLeq(Frac(1, 1), r.score) /\ FracLeq(r.score, Frac(10, 1))
                /\ FracEq(r.score, Frac(ExpectedHalves(f, m), 2))
                /\ Len(r.factors) = ExpectedCount(f, m)
                /\ \A x, y \in 1..Len(r.factors) : x # y => r.factors[x] # r.factors[y]
                /\ r.difficulty =
                      (IF FracLess(r.score, Frac(3, 1)) THEN "Easy"
                       ELSE IF FracLess(r.score, Frac(5, 1)) THEN "Moderate"
                       ELSE IF FracLess(r.score, Frac(7, 1)) THEN "Difficult"
                       ELSE "Very Difficult")

\* C18 witness: the feature of the test suite scored for "250 HB": 5.5,
\* Difficult, three factors.
C18_Witness ==
    /\ pc = "scored"
    /\ scores.feature = ScenarioHFeature
    /\ scores.material_hardness = ScenarioHMaterial
    /\ FracEq(scores.results[1].score, Frac(11, 2))
    /\ scores.results[1].difficulty = "Difficult"
    /\ Len(scores.results[1].factors) = 3

\* a feature with all five increments: the score 9 and Very Difficult
AllIncrementsScored ==
    /\ pc = "scored"
    /\ Len(scores.results[1].factors) = 5
    /\ FracEq(scores.results[1].score, Frac(9, 1))
    /\ scores.results[1].difficulty = "Very Difficult"

-----------------------------------------------------------------------------
(* geometry_analyzer.py: GeometryAnalyzer.calculate_accessibility_score    *)
(* and calculate_complexity_score.  The shape is the sequence of its faces *)
(* in the order of the explorer; a face has its surface type and the Z     *)
(* component of its normal, an integer number of hundredths.               *)

TOP_Z == 90                  \* z_comp > 0.9
SIDE_Z == 30                 \* z_comp < 0.3
COMPLEX_FACTOR == 5          \* (complex_count / total_faces) * 5.0
MANY_FACES == 20             \* total_faces > 20
MANY_BONUS == 2              \* score += 2.0
SEVERAL_FACES == 10          \* total_faces > 10
SEVERAL_BONUS == 1           \* score += 1.0
MAX_COMPLEXITY == 10         \* min(score, 10.0)

\* (mutant) the sign of the normal is kept
ZComp_Signed(nz) == nz

\* z_comp = abs(normal.Z())
ZComp(nz) == Abs(nz)

\* the orientation bucket of a face: "top", "bottom", "side" or "none"
Bucket(face) ==
    IF face.surface # "Plane" THEN "none"
    ELSE IF ZComp(face.nz) > TOP_Z
         THEN (IF face.nz > 0 THEN "top" ELSE "bottom")
    ELSE IF ZComp(face.nz) < SIDE_Z THEN "side"
    ELSE "none"

\* the explorer loop: the number of faces counted into the bucket
RECURSIVE CountBucket(_, _)
CountBucket(faces, bucket) ==
    IF faces = <<>> THEN 0
    ELSE (IF Bucket(Head(faces)) = bucket THEN 1 ELSE 0)
         + CountBucket(Tail(faces), bucket)

GeometryAnalyzer_calculate_accessibility_score(faces) ==
    LET top_facing == CountBucket(faces, "top")
        side_facing == CountBucket(faces, "side")
        bottom_facing == CountBucket(faces, "bottom")
        total_faces == top_facing + side_facing + bottom_facing
    IN  IF total_faces > 0
        THEN Frac(2 * top_facing + side_facing, 2 * total_faces)
        ELSE FracOne

\* the counter a face goes to: "planar", "cylindrical" or "complex"
SurfaceClass(face) ==
    IF face.surface = "Plane" THEN "planar"
    ELSE IF face.surface = "Cylinder" THEN "cylindrical"
    ELSE "complex"

\* the explorer loop: the number of faces counted into the class
RECURSIVE CountSurface(_, _)
CountSurface(faces, class) ==
    IF faces = <<>> THEN 0
    ELSE (IF SurfaceClass(Head(faces)) = class THEN 1 ELSE 0)
         + CountSurface(Tail(faces), class)

\* (mutant) the test for more than 10 faces is made first
FaceCountBonus_SeveralFirst(total_faces) ==
    IF total_faces > SEVERAL_FACES THEN SEVERAL_BONUS
    ELSE IF total_faces > MANY_FACES THEN MANY_BONUS
    ELSE 0

FaceCountBonus(total_faces) ==
    IF total_faces > MANY_FACES THEN MANY_BONUS
    ELSE IF total_faces > SEVERAL_FACES THEN SEVERAL_BONUS
    ELSE 0

GeometryAnalyzer_calculate_complexity_score(faces) ==
    LET planar_count == CountSurface(faces, "planar")
        cylindrical_count == CountSurface(faces, "cylindrical")
        complex_count == CountSurface(faces, "complex")
        total_faces == planar_count + cylindrical_count + complex_count
        score == IF total_faces > 0
                 THEN Frac(COMPLEX_FACTOR * complex_count
                              + FaceCountBonus(total_faces) * total_faces,
                           total_faces)
                 ELSE FracZero
    IN  IF FracLeq(score, Frac(MAX_COMPLEXITY, 1)) THEN score
        ELSE Frac(MAX_COMPLEXITY, 1)

-----------------------------------------------------------------------------
(* The two scores of a GeometryAnalyzer constructed on a shape *)

MaxRun == 10            \* the longest run of equal faces in the shape

\* semi-angles of cones are in units of pi/360 rad (half a degree)
SEMI_ANGLE_UNITS == 360

\* the kinds of faces, each repeated 0, 1 or MaxRun times in the shape
FaceKinds ==
    <<[surface |-> "Plane", nz |-> 100, semi_angle |-> 0],
      [surface |-> "Plane", nz |-> -100, semi_angle |-> 0],
      [surface |-> "Plane", nz |-> 0, semi_angle |-> 0],
      [surface |-> "Plane", nz |-> TOP_Z, semi_angle |-> 0],
      [surface |-> "Plane", nz |-> -SIDE_Z, semi_angle |-> 0],
      [surface |-> "Cylinder", nz |-> 0, semi_angle |-> 0],
      [surface |-> "Cone", nz |-> 0, semi_angle |-> 90],
      [surface |-> "Cone", nz |-> 0, semi_angle |-> 1],
      [surface |-> "Torus", nz |-> 0, semi_angle |-> 0]>>

RunLengths == {0, 1, MaxRun}

\* the faces of kinds k.. of the shape, run[k] faces of kind k
RECURSIVE FacesFrom(_, _)
FacesFrom(run, k) ==
    IF k > Len(FaceKinds) THEN <<>>
    ELSE [a \in 1..run[k] |-> FaceKinds[k]] \o FacesFrom(run, k + 1)

InitGeometry ==
    /\ pc = "constructed"
    /\ \E run \in [1..Len(FaceKinds) -> RunLengths] :
          metrics = [shape |-> FacesFrom(run, 1),
                     accessibility_score |-> <<>>,
                     complexity_score |-> <<>>]
    /\ decisions = <<>> /\ scores = <<>>
    /\ NoRecognizer /\ NoClassifier /\ NoAnalyzer /\ NoEngine

\* analysis.accessibility_score = self.calculate_accessibility_score()
CalculateAccessibilityScore ==
    /\ metrics.accessibility_score = <<>>
    /\ metrics' = [metrics EXCEPT !.accessibility_score =
          <<GeometryAnalyzer_calculate_accessibility_score(metrics.shape)>>]
    /\ pc' = "analyzing"
    /\ UNCHANGED <<features, patterns, props, classifications, adj, relationships,
                   clusters, shape, feature_counter, all_features, runs,
                   decisions, scores, calls>>

\* analysis.complexity_score = self.calculate_complexity_score()
CalculateComplexityScore ==
    /\ metrics.complexity_score = <<>>
    /\ metrics' = [metrics EXCEPT !.complexity_score =
          <<GeometryAnalyzer_calculate_complexity_score(metrics.shape)>>]
    /\ pc' = "analyzing"
    /\ UNCHANGED <<features, patterns, props, classifications, adj, relationships,
                   clusters, shape, feature_counter, all_features, runs,
                   decisions, scores, calls>>

NextGeometry == CalculateAccessibilityScore \/ CalculateComplexityScore

SpecGeometry == InitGeometry /\ [][NextGeometry]_vars

\* the faces of the shape, by index
ShapeFaces == 1..Len(metrics.shape)
PlanarFaces == {a \in ShapeFaces : metrics.shape[a].surface = "Plane"}
TopFaces == {a \in PlanarFaces : metrics.shape[a].nz > 90}
BottomFaces == {a \in PlanarFaces : metrics.shape[a].nz < -90}
SideFaces == {a \in PlanarFaces : metrics.shape[a].nz < 30 /\ metrics.shape[a].nz > -30}

\* C19: with the planar faces counted as top (normal z > 0.9), bottom (normal
\* z < -0.9) and side (|z| < 0.3), the accessibility score is
\* (top + 0.5 x side) / (top + side + bottom), and 1.0 when no face falls in
\* any bucket; it is always in [0,1].
C19_AccessibilityScore ==
    (pc = "analyzing" /\ metrics.accessibility_score # <<>>) =>
        LET score == metrics.accessibility_score[1]
            top == Cardinality(TopFaces)
            side == Cardinality(SideFaces)
            bottom == Cardinality(BottomFaces)
        IN  /\ InUnitInterval(score)
            /\ score.den # 0
            /\ IF top + side + bottom = 0 THEN FracEq(score, Frac(1, 1))
               ELSE FracEq(score, Frac(2 * top + side, 2 * (top + side + bottom)))

\* C19 witness: a shape with top, side and bottom faces and planar faces in no
\* bucket, scored strictly between 0 and 1.
C19_Witness ==
    /\ pc = "analyzing"
    /\ metrics.accessibility_score # <<>>
    /\ TopFaces # {} /\ SideFaces # {} /\ BottomFaces # {}
    /\ PlanarFaces \ (TopFaces \cup SideFaces \cup BottomFaces) # {}
    /\ FracLess(Frac(0, 1), metrics.accessibility_score[1])
    /\ FracLess(metrics.accessibility_score[1], Frac(1, 1))

\* a shape with faces, none of them in a bucket, scored 1.0
NoBucketScored ==
    /\ pc = "analyzing"
    /\ metrics.accessibility_score = <<Frac(1, 1)>>
    /\ metrics.shape # <<>>
    /\ TopFaces \cup SideFaces \cup BottomFaces = {}

ComplexFaces == {a \in ShapeFaces : metrics.shape[a].surface \notin {"Plane", "Cylinder"}}

\* C20: the complexity score is (faces neither planar nor cylindrical / total
\* faces) x 5, plus 2 when the shape has more than 20 faces or else 1 when it
\* has more than 10, capped at 10; it is 0 for a shape with no faces and always
\* in [0,10].
C20_ComplexityScore ==
    (pc = "analyzing" /\ metrics.complexity_score # <<>>) =>
        LET score == metrics.complexity_score[1]
            total == Cardinality(ShapeFaces)
            bonus == IF total > 20 THEN 2 ELSE IF total > 10 THEN 1 ELSE 0
            uncapped == Frac(5 * Cardinality(ComplexFaces) + bonus * total, total)
        IN  /\ score.den # 0
            /\ FracLeq(Frac(0, 1), score) /\ FracLeq(score, Frac(10, 1))
            /\ IF total = 0 THEN FracEq(score, Frac(0, 1))
               ELSE FracEq(score, IF FracLeq(uncapped, Frac(10, 1)) THEN uncapped
                                  ELSE Frac(10, 1))

\* C20 witness: a shape of more than 20 faces, some of them neither planar nor
\* cylindrical, scored above 2.
C20_Witness ==
    /\ pc = "analyzing"
    /\ metrics.complexity_score # <<>>
    /\ Cardinality(ShapeFaces) > 20
    /\ ComplexFaces # {} /\ PlanarFaces # {}
    /\ FracLess(Frac(2, 1), metrics.complexity_score[1])

-----------------------------------------------------------------------------
(* geometry_analyzer.py: GeometryAnalyzer.analyze_complete and its parts.  *)
(* A shape is its list of faces and the dimensions of its bounding box in  *)
(* units of 0.1 mm.  Angles in degrees are exact fractions.                *)

THIN_WALL_THRESHOLD == 15     \* self.THIN_WALL_THRESHOLD = 1.5 mm
MIN_DRAFT_ANGLE == 1          \* self.MIN_DRAFT_ANGLE = 1.0 degrees
UNDERCUT_Z == 30              \* normal.Z() < -0.3

\* (mutant) the full angle of the cone instead of its semi-angle
math_degrees_Doubled(x) == Frac(360 * x, SEMI_ANGLE_UNITS)

\* math.degrees(x) = x * 180 / pi, for x in units of pi/SEMI_ANGLE_UNITS rad
math_degrees(x) == Frac(180 * x, SEMI_ANGLE_UNITS)

RECURSIVE DraftScan(_, _, _)
DraftScan(faces, k, draft_angles) ==
    IF k > Len(faces) THEN draft_angles
    ELSE IF faces[k].surface = "Cone"
         THEN DraftScan(faces, k + 1,
                        Append(draft_angles, math_degrees(faces[k].semi_angle)))
    ELSE DraftScan(faces, k + 1, draft_angles)

GeometryAnalyzer_measure_draft_angles(faces) == DraftScan(faces, 1, <<>>)

\* a downward planar face (normal.Z() < -0.3) makes the shape undercut
GeometryAnalyzer_detect_undercuts(faces) ==
    \E k \in 1..Len(faces) :
        faces[k].surface = "Plane" /\ faces[k].nz < -UNDERCUT_Z

\* (has_thin_walls, min_dimension) from the bounding box
GeometryAnalyzer_analyze_wall_thickness(bbox) ==
    LET min_dimension == Min2(bbox[1], Min2(bbox[2], bbox[3]))
    IN  <<min_dimension < THIN_WALL_THRESHOLD, min_dimension>>

\* one risk per draft angle below the minimum, in order
RECURSIVE LowDraftRisks(_, _)
LowDraftRisks(draft_angles, k) ==
    IF k > Len(draft_angles) THEN <<>>
    ELSE (IF FracLess(draft_angles[k], Frac(MIN_DRAFT_ANGLE, 1))
          THEN <<"Low draft angle">> ELSE <<>>)
         \o LowDraftRisks(draft_angles, k + 1)

(* (mutant) the high-complexity test taken at 5.0 *)
HighComplexity_AboveFive(analysis) == FracLess(Frac(5, 1), analysis.complexity_score)

\* analysis.complexity_score > 7.0
HighComplexity(analysis) == FracLess(Frac(7, 1), analysis.complexity_score)

\* the messages are modelled by their leading words, without the numbers
GeometryAnalyzer_identify_risks(analysis) ==
    (IF analysis.has_undercuts THEN <<"Undercuts detected">> ELSE <<>>)
    \o (IF analysis.has_thin_walls THEN <<"Thin walls detected">> ELSE <<>>)
    \o (IF FracLess(analysis.accessibility_score, Frac(1, 2))
        THEN <<"Poor accessibility">> ELSE <<>>)
    \o (IF HighComplexity(analysis) THEN <<"High complexity">> ELSE <<>>)
    \o LowDraftRisks(analysis.draft_angles, 1)

GeometryAnalyzer_suggest_strategies(analysis) ==
    (IF analysis.has_thin_walls
     THEN <<"Use light depth of cut and multiple passes",
            "Consider climb milling to reduce cutting forces",
            "Use sharp tools to minimize deflection">> ELSE <<>>)
    \o (IF analysis.has_undercuts
        THEN <<"Evaluate if undercuts can be accessed with angled tools",
               "Consider additional setups or part rotation">> ELSE <<>>)
    \o (IF HighComplexity(analysis)
        THEN <<"Break into multiple operations with tool changes",
               "Use adaptive clearing for efficient roughing">> ELSE <<>>)
    \o (IF FracLess(analysis.accessibility_score, Frac(7, 10))
        THEN <<"Consider 4-axis or 5-axis machining",
               "Optimize fixture design for better access">> ELSE <<>>)

GeometryAnalyzer_analyze_complete(faces, bbox) ==
    LET wall == GeometryAnalyzer_analyze_wall_thickness(bbox)
        measured == [has_undercuts |-> GeometryAnalyzer_detect_undercuts(faces),
                     has_thin_walls |-> wall[1],
                     min_wall_thickness |-> wall[2],
                     draft_angles |-> GeometryAnalyzer_measure_draft_angles(faces),
                     accessibility_score |->
                         GeometryAnalyzer_calculate_accessibility_score(faces),
                     complexity_score |->
                         GeometryAnalyzer_calculate_complexity_score(faces),
                     manufacturing_risks |-> <<>>,
                     suggested_strategies |-> <<>>]
        risked == [measured EXCEPT !.manufacturing_risks =
                                       GeometryAnalyzer_identify_risks(measured)]
    IN  [risked EXCEPT !.suggested_strategies =
                           GeometryAnalyzer_suggest_strategies(risked)]

\* bounding boxes with the smallest dimension below, at and above 1.5 mm
BoxSet == {<<100, 100, 14>>, <<THIN_WALL_THRESHOLD, 100, 100>>, <<100, 16, 100>>}

InitAnalysis ==
    /\ pc = "constructed"
    /\ \E run \in [1..Len(FaceKinds) -> RunLengths], box \in BoxSet :
          metrics = [shape |-> FacesFrom(run, 1), bbox |-> box,
                     draft_angles |-> <<>>, analysis |-> <<>>]
    /\ decisions = <<>> /\ scores = <<>>
    /\ NoRecognizer /\ NoClassifier /\ NoAnalyzer /\ NoEngine

\* a call of measure_draft_angles()
MeasureDraftAngles ==
    /\ metrics.draft_angles = <<>>
    /\ metrics' = [metrics EXCEPT !.draft_angles =
          <<GeometryAnalyzer_measure_draft_angles(metrics.shape)>>]
    /\ pc' = "analyzing"
    /\ UNCHANGED <<features, patterns, props, classifications, adj, relationships,
                   clusters, shape, feature_counter, all_features, runs,
                   decisions, scores, calls>>

\* a call of analyze_complete()
AnalyzeComplete ==
    /\ metrics.analysis = <<>>
    /\ metrics' = [metrics EXCEPT !.analysis =
          <<GeometryAnalyzer_analyze_complete(metrics.shape, metrics.bbox)>>]
    /\ pc' = "analyzing"
    /\ UNCHANGED <<features, patterns, props, classifications, adj, relationships,
                   clusters, shape, feature_counter, all_features, runs,
                   decisions, scores, calls>>

NextAnalysis == MeasureDraftAngles \/ AnalyzeComplete

SpecAnalysis == InitAnalysis /\ [][NextAnalysis]_vars

\* the conical faces of the shape, as indices in face iteration order
ConeFaces == {a \in ShapeFaces : metrics.shape[a].surface = "Cone"}

\* the index of the n-th conical face
NthCone(n) ==
    CHOOSE a \in ConeFaces : Cardinality({b \in ConeFaces : b <= a}) = n

\* the fraction is d times the semi-angle of face a, in degrees
IsDegreesOf(fraction, a, d) ==
    /\ fraction.den # 0
    /\ fraction.num * SEMI_ANGLE_UNITS = d * 180 * metrics.shape[a].semi_angle * fraction.den

MeasuredDraftAngles == metrics.draft_angles[1]

\* C21 as stated: measure_draft_angles returns one entry per conical face, in
\* face order, each of them twice the semi-angle of its cone in degrees.
C21_DraftIsTwiceSemiAngle ==
    (pc = "analyzing" /\ metrics.draft_angles # <<>>) =>
        /\ Len(MeasuredDraftAngles) = Cardinality(ConeFaces)
        /\ \A n \in 1..Len(MeasuredDraftAngles) :
              IsDegreesOf(MeasuredDraftAngles[n], NthCone(n), 2)

\* C21 amended: measure_draft_angles returns one entry per conical face of the
\* shape, in face iteration order, and each entry is the semi-angle of that
\* cone in degrees; faces of any other surface type contribute no entry.
C21_DraftIsSemiAngle ==
    (pc = "analyzing" /\ metrics.draft_angles # <<>>) =>
        /\ Len(MeasuredDraftAngles) = Cardinality(ConeFaces)
        /\ \A n \in 1..Len(MeasuredDraftAngles) :
              IsDegreesOf(MeasuredDraftAngles[n], NthCone(n), 1)

\* C21 witness: a shape with planar and cylindrical faces and cones of two
\* different semi-angles, measured.
C21_Witness ==
    /\ pc = "analyzing"
    /\ metrics.draft_angles # <<>>
    /\ PlanarFaces # {}
    /\ \E a \in ShapeFaces : metrics.shape[a].surface = "Cylinder"
    /\ \E a, b \in ConeFaces : metrics.shape[a].semi_angle # metrics.shape[b].semi_angle
    /\ Len(MeasuredDraftAngles) > 2

\* the GeometryAnalysis returned by analyze_complete
Analysis == metrics.analysis[1]

\* C28: the complexity score never exceeds 7 (at most 5 from the share of faces
\* neither planar nor cylindrical, at most 2 from the number of faces), so the
\* analysis returned by analyze_complete never holds the 'High complexity' risk
\* nor the 'Break into multiple operations' strategy.
C28_NeverHighComplexity ==
    (pc = "analyzing" /\ metrics.analysis # <<>>) =>
        /\ FracLeq(Analysis.complexity_score, Frac(7, 1))
        /\ FracLeq(Frac(5 * Cardinality(ComplexFaces), Max2(1, Cardinality(ShapeFaces))),
                   Frac(5, 1))
        /\ \A k \in 1..Len(Analysis.manufacturing_risks) :
              Analysis.manufacturing_risks[k] # "High complexity"
        /\ \A k \in 1..Len(Analysis.suggested_strategies) :
              /\ Analysis.suggested_strategies[k] #
                     "Break into multiple operations with tool changes"
              /\ Analysis.suggested_strategies[k] #
                     "Use adaptive clearing for efficient roughing"

\* C28 witness: a shape of more than 20 faces, all of them conical or toroidal,
\* analysed: its complexity score is 7, the largest there is, and it has other
\* risks.
C28_Witness ==
    /\ pc = "analyzing"
    /\ metrics.analysis # <<>>
    /\ Cardinality(ShapeFaces) > 20
    /\ ComplexFaces = ShapeFaces
    /\ FracEq(Analysis.complexity_score, Frac(7, 1))
    /\ Analysis.manufacturing_risks # <<>>

-----------------------------------------------------------------------------
(* The detectors of the engine, seen in the lists it returns *)

\* the conical faces of the shape whose full angle is within lo..hi, the limits
\* included, and those strictly inside
ConesWithin(lo, hi) ==
    {k \in 1..Len(shape.faces) :
        /\ shape.faces[k].type = "Cone"
        /\ lo <= shape.faces[k].sink_angle /\ shape.faces[k].sink_angle <= hi}

ConesInside(lo, hi) ==
    {k \in ConesWithin(lo, hi) :
        shape.faces[k].sink_angle # lo /\ shape.faces[k].sink_angle # hi}

\* the countersinks of the r-th returned list
CountersinksOf(r) ==
    {a \in 1..Len(runs[r].features) :
        runs[r].features[a].feature_type = "Countersink Hole"}

\* C22 as stated: one countersink for each conical face whose full angle is in
\* the closed range [75, 125] degrees, the limits 75 and 125 included, and none
\* for any other face.
C22_CountersinkClosedRange ==
    \A r \in Returned :
        Cardinality(CountersinksOf(r)) = Cardinality(ConesWithin(750, 1250))

\* C22 amended: one countersink for each conical face whose full angle is
\* strictly between 75 and 125 degrees, and none for a cone of 75 or 125
\* degrees or outside that range, nor for a face that is not conical.
C22_CountersinkOpenRange ==
    \A r \in Returned :
        Cardinality(CountersinksOf(r)) = Cardinality(ConesInside(750, 1250))

\* C22 witness: a returned list with one countersink, from a shape with a cone
\* inside the range, a cone of exactly 75 or 125 degrees and another face.
C22_Witness ==
    \E r \in Returned :
        /\ Cardinality(CountersinksOf(r)) = 1
        /\ ConesInside(750, 1250) # {}
        /\ ConesWithin(750, 1250) \ ConesInside(750, 1250) # {}
        /\ \E k \in 1..Len(shape.faces) : shape.faces[k].type # "Cone"

\* the patterns of the r-th returned list that hold feature a of that list, as
\* indices from 0 in detection order
PatternsHolding(r, a) ==
    {i \in 0..(Len(runs[r].patterns) - 1) :
        runs[r].features[a].feature_id \in Range(runs[r].patterns[i + 1].feature_ids)}

\* C23 as stated: a feature in several patterns has the index of the first of
\* them as pattern_id, a feature in no pattern has None, and a set pattern_id
\* is the index of a pattern holding the feature.
C23_FirstMatchWins ==
    \A r \in Returned :
        \A a \in 1..Len(runs[r].features) :
            LET id == runs[r].features[a].pattern_id
                holding == PatternsHolding(r, a)
            IN  /\ (holding = {}) <=> (id = NoPattern)
                /\ id # NoPattern =>
                      /\ id[1] \in holding
                      /\ \A i \in holding : id[1] <= i

\* C23 amended: a feature in several patterns has the index of the LAST of them
\* (in detection order) as pattern_id, a feature in no pattern has None, and a
\* set pattern_id is the index of a pattern holding the feature.
C23_LastMatchWins ==
    \A r \in Returned :
        \A a \in 1..Len(runs[r].features) :
            LET id == runs[r].features[a].pattern_id
                holding == PatternsHolding(r, a)
            IN  /\ (holding = {}) <=> (id = NoPattern)
                /\ id # NoPattern =>
                      /\ id[1] \in holding
                      /\ \A i \in holding : i <= id[1]

\* C23 witness: a returned list with a feature held by several patterns and a
\* feature held by none.
C23_Witness ==
    \E r \in Returned :
        \E a, b \in 1..Len(runs[r].features) :
            /\ Cardinality(PatternsHolding(r, a)) > 1
            /\ runs[r].features[a].pattern_id # NoPattern
            /\ PatternsHolding(r, b) = {}
            /\ runs[r].features[b].pattern_id = NoPattern

-----------------------------------------------------------------------------
(* recognize_all_advanced_features statement by statement: pc is the next  *)
(* statement of the running call, calls the calls it has made so far,      *)
(* metrics the overall_analysis and all_features the local list.           *)

\* a face of the engine's shape as the geometry analyzer reads it: the normal
\* of a plane in hundredths, the semi-angle of a cone in half degrees
AnalyzedFace(face) ==
    [surface |-> face.type, nz |-> 100 * face.axis[3],
     semi_angle |-> face.sink_angle \div 10]

AnalyzedFaces(sh) == [k \in 1..Len(sh.faces) |-> AnalyzedFace(sh.faces[k])]

PipelineShapes ==
    {Merge(sh, [bbox |-> box]) :
        sh \in {Unloadable}
               \cup {ShapeOf(els) : els \in SeqsUpTo(ElementSet, MaxShape - 1)},
        box \in BoxSet}

InitPipeline ==
    /\ pc = "constructed"
    /\ shape \in PipelineShapes
    /\ feature_counter = INITIAL_FEATURE_COUNTER
    /\ all_features = <<>>
    /\ patterns = <<>>
    /\ runs = <<>>
    /\ calls = <<>>
    /\ metrics = [analysis |-> <<>>]
    /\ features = <<>>
    /\ decisions = <<>> /\ scores = <<>>
    /\ NoClassifier /\ NoAnalyzer

Idle == pc \in {"constructed", "returned", "raised"}

\* if not self.shape: if not self.load_file(): ... -- the file loads, or the
\* shape is there already
PipelineLoad ==
    /\ Idle /\ Len(runs) < MaxRuns
    /\ shape.loaded \/ shape.loadable
    /\ calls' = IF shape.loaded THEN <<>> ELSE <<"load_file">>
    /\ shape' = [shape EXCEPT !.loaded = TRUE]
    /\ metrics' = [analysis |-> <<>>]
    /\ all_features' = <<>>
    /\ pc' = "analysis"
    /\ UNCHANGED <<features, patterns, props, classifications, adj, relationships,
                   clusters, feature_counter, runs, decisions, scores>>

\* ... raise ValueError("Could not load CAD file")
PipelineRaise ==
    /\ Idle /\ Len(runs) < MaxRuns
    /\ ~shape.loaded /\ ~shape.loadable
    /\ calls' = <<"load_file">>
    /\ runs' = Append(runs, [raised |-> TRUE, features |-> <<>>, patterns |-> <<>>])
    /\ pc' = "raised"
    /\ UNCHANGED <<features, patterns, props, classifications, adj, relationships,
                   clusters, shape, feature_counter, all_features,
                   decisions, scores, metrics>>

\* overall_analysis = self.geometry_analyzer.analyze_complete()
PipelineAnalyze ==
    /\ pc = "analysis"
    /\ metrics' = [analysis |->
          <<GeometryAnalyzer_analyze_complete(AnalyzedFaces(shape), shape.bbox)>>]
    /\ calls' = Append(calls, "analyze_complete")
    /\ pc' = "basic"
    /\ UNCHANGED <<features, patterns, props, classifications, adj, relationships,
                   clusters, shape, feature_counter, all_features, runs,
                   decisions, scores>>

\* all_features.extend(<detector>()): the detector named name, called at
\* position, returns detected; the call goes on at next
DetectorStep(position, next, name, detected) ==
    /\ pc = position
    /\ all_features' = all_features \o detected.features
    /\ feature_counter' = detected.counter
    /\ calls' = Append(calls, name)
    /\ pc' = next
    /\ UNCHANGED <<features, patterns, props, classifications, adj, relationships,
                   clusters, shape, runs, decisions, scores, metrics>>

PipelineBasic ==
    DetectorStep("basic", "threaded", "recognize_all_features",
                 recognize_all_features(shape, feature_counter))

PipelineThreaded ==
    DetectorStep("threaded", "counterbores", "recognize_threaded_holes",
                 recognize_threaded_holes(shape, feature_counter))

PipelineCounterbores ==
    DetectorStep("counterbores", "countersinks", "recognize_counterbores",
                 recognize_counterbores(shape, feature_counter))

PipelineCountersinks ==
    DetectorStep("countersinks", "bosses", "recognize_countersinks",
                 recognize_countersinks(shape, feature_counter))

\* (mutant) the patterns are recognized right after the bosses
PipelineBosses_ThenPatterns ==
    DetectorStep("bosses", "patterns", "recognize_bosses",
                 recognize_bosses(shape, feature_counter))

PipelineBosses ==
    DetectorStep("bosses", "t_slots", "recognize_bosses",
                 recognize_bosses(shape, feature_counter))

PipelineTSlots ==
    DetectorStep("t_slots", "patterns", "recognize_t_slots",
                 recognize_t_slots(shape, feature_counter))

\* patterns = PatternRecognizer(all_features).recognize_all_patterns()
PipelinePatterns ==
    /\ pc = "patterns"
    /\ patterns' = PatternRecognizer_recognize_all_patterns(all_features)
    /\ calls' = Append(calls, "recognize_all_patterns")
    /\ pc' = "assign"
    /\ UNCHANGED <<features, props, classifications, adj, relationships, clusters,
                   shape, feature_counter, all_features, runs,
                   decisions, scores, metrics>>

\* the loop assigning pattern_id, self.features = all_features and the return
PipelineAssign ==
    /\ pc = "assign"
    /\ all_features' = AssignPatternIds(all_features, patterns)
    /\ runs' = Append(runs, [raised |-> FALSE,
                             features |-> AssignPatternIds(all_features, patterns),
                             patterns |-> patterns])
    /\ pc' = "returned"
    /\ UNCHANGED <<features, patterns, props, classifications, adj, relationships,
                   clusters, shape, feature_counter,
                   decisions, scores, metrics, calls>>

NextPipeline ==
    \/ PipelineLoad \/ PipelineRaise \/ PipelineAnalyze
    \/ PipelineBasic \/ PipelineThreaded \/ PipelineCounterbores
    \/ PipelineCountersinks \/ PipelineBosses \/ PipelineTSlots
    \/ PipelinePatterns \/ PipelineAssign

SpecPipeline == InitPipeline /\ [][NextPipeline]_vars

\* the detectors, in the order of the calls
DetectorCalls ==
    <<"recognize_all_features", "recognize_threaded_holes", "recognize_counterbores",
      "recognize_countersinks", "recognize_bosses", "recognize_t_slots">>

\* the positions of the call name in the calls made so far
CallsOf(name) == {k \in 1..Len(calls) : calls[k] = name}

\* some feature of the local list has its pattern_id set
SomePatternIdSet ==
    \E a \in 1..Len(all_features) : all_features[a].pattern_id # NoPattern

\* the statements of the running call before the analysis is there
BeforeAnalysis == Idle \/ pc = "analysis"

\* the order of the calls made so far
PipelineOrder ==
    /\ pc = "raised" =>
          /\ calls = <<"load_file">>
          /\ metrics.analysis = <<>> /\ all_features = <<>>
    /\ Cardinality(CallsOf("analyze_complete")) <= 1
    /\ (pc \notin {"constructed", "raised", "analysis"}) =>
          /\ Cardinality(CallsOf("analyze_complete")) = 1
          /\ metrics.analysis # <<>>
    /\ \A d \in Range(DetectorCalls) : \A k \in CallsOf(d) :
          \E a \in CallsOf("analyze_complete") : a < k
    /\ Cardinality(CallsOf("recognize_all_patterns")) <= 1
    /\ \A p \in CallsOf("recognize_all_patterns") :
          \A d \in Range(DetectorCalls) :
              /\ Cardinality(CallsOf(d)) = 1
              /\ \A k \in CallsOf(d) : k < p
    /\ (pc = "returned") => Cardinality(CallsOf("recognize_all_patterns")) = 1
    /\ SomePatternIdSet => CallsOf("recognize_all_patterns") # {} /\ pc = "returned"

\* the step of the recognizer leaves the features as they are, and between
\* two statements the list only grows at its end
FeaturesOnlyAppended ==
    /\ pc = "patterns" => all_features' = all_features
    /\ (pc \notin {"assign"} /\ ~Idle) =>
          /\ Len(all_features') >= Len(all_features)
          /\ SubSeq(all_features', 1, Len(all_features)) = all_features

\* C24: in a call of recognize_all_advanced_features a load failure raises
\* before any analysis; the geometry analysis is computed exactly once, before
\* any detector runs; the pattern recognizer runs exactly once, after the last
\* detector has appended its features; no pattern_id is written before the
\* patterns are computed, and the recognizer's step modifies no feature.
C24_PipelineOrdering == []PipelineOrder /\ [][FeaturesOnlyAppended]_vars

\* C24 witness: a call that loaded the file and returned, with a T-slot from
\* the last detector in its list and a pattern_id set on a feature.
C24_Witness ==
    /\ pc = "returned"
    /\ calls = <<"load_file", "analyze_complete">> \o DetectorCalls
                 \o <<"recognize_all_patterns">>
    /\ \E a \in 1..Len(all_features) : all_features[a].feature_type = "T-Slot"
    /\ SomePatternIdSet
    /\ patterns # <<>>

\* the statement-by-statement call returns what the call taken as one step does
PipelineAgrees ==
    (Len(runs) >= 1 /\ ~runs[1].raised) =>
        LET detected == AllDetected(shape, INITIAL_FEATURE_COUNTER)
            found == PatternRecognizer_recognize_all_patterns(detected.features)
        IN  /\ runs[1].features = AssignPatternIds(detected.features, found)
            /\ runs[1].patterns = found

-----------------------------------------------------------------------------
(* Detectors of one engine run at the same time.  Each detector is a       *)
(* thread; pc[d] is its position: the index of the feature it creates next *)
(* and the statement it is at.  The statements that touch the counter are  *)
(*     feature = AdvancedMachiningFeature(feature_id=self.feature_counter) *)
(*     self.feature_counter += 1      (a load, then a store)               *)
(* and there is no lock around them.                                       *)

ConcurrentDetectors ==
    {"recognize_counterbores", "recognize_countersinks", "recognize_bosses"}

\* the features detector d creates on the shape, in order (ids aside)
DetectorMatches(d, sh) ==
    IF d = "recognize_counterbores" THEN recognize_counterbores(sh, 0).features
    ELSE IF d = "recognize_countersinks" THEN recognize_countersinks(sh, 0).features
    ELSE recognize_bosses(sh, 0).features

StartOf(d, sh) ==
    [at |-> IF DetectorMatches(d, sh) = <<>> THEN "done" ELSE "construct",
     k |-> 1, loaded |-> 0]

InitConcurrent ==
    /\ shape \in {ShapeOf(els) :
                     els \in SeqsUpTo({e \in ElementSet : e.kind = "face"}, MaxShape)}
    /\ pc = [d \in ConcurrentDetectors |-> StartOf(d, shape)]
    /\ feature_counter = INITIAL_FEATURE_COUNTER
    /\ all_features = [d \in ConcurrentDetectors |-> <<>>]
    /\ patterns = <<>> /\ runs = <<>> /\ calls = <<>> /\ features = <<>>
    /\ NoClassifier /\ NoAnalyzer /\ NoScoring

\* feature = AdvancedMachiningFeature(feature_id=self.feature_counter, ...)
\* and the append to the detector's own list
ConstructFeature ==
    \E d \in ConcurrentDetectors :
        /\ pc[d].at = "construct"
        /\ all_features' = [all_features EXCEPT ![d] =
              Append(@, [DetectorMatches(d, shape)[pc[d].k]
                            EXCEPT !.feature_id = feature_counter])]
        /\ pc' = [pc EXCEPT ![d].at = "load"]
        /\ UNCHANGED <<features, patterns, props, classifications, adj,
                       relationships, clusters, shape, feature_counter, runs,
                       decisions, scores, metrics, calls>>

\* self.feature_counter += 1: the value is read
LoadCounter ==
    \E d \in ConcurrentDetectors :
        /\ pc[d].at = "load"
        /\ pc' = [pc EXCEPT ![d].at = "store", ![d].loaded = feature_counter]
        /\ UNCHANGED <<features, patterns, props, classifications, adj,
                       relationships, clusters, shape, feature_counter,
                       all_features, runs, decisions, scores, metrics, calls>>

\* self.feature_counter += 1: the sum is written back; the loop goes on
StoreCounter ==
    \E d \in ConcurrentDetectors :
        /\ pc[d].at = "store"
        /\ feature_counter' = Increment(pc[d].loaded)
        /\ pc' = [pc EXCEPT ![d].k = @ + 1,
                            ![d].at = IF pc[d].k + 1 > Len(DetectorMatches(d, shape))
                                      THEN "done" ELSE "construct"]
        /\ UNCHANGED <<features, patterns, props, classifications, adj,
                       relationships, clusters, shape, all_features, runs,
                       decisions, scores, metrics, calls>>

NextConcurrent == ConstructFeature \/ LoadCounter \/ StoreCounter

SpecConcurrent == InitConcurrent /\ [][NextConcurrent]_vars

\* the feature ids given out so far, detector by detector
CreatedIds ==
    {<<d, k>> : d \in ConcurrentDetectors, k \in 1..MaxShape}
        \cap {c \in ConcurrentDetectors \X (1..MaxShape) :
                 c[2] <= Len(all_features[c[1]])}

\* C25: with the detectors of one engine run concurrently, their steps
\* interleaved in any order, no two created features have the same feature_id
\* (taking an id and advancing feature_counter is one indivisible step).
C25_AtomicIdAllocation ==
    \A c1, c2 \in CreatedIds :
        c1 # c2 => all_features[c1[1]][c1[2]].feature_id
                       # all_features[c2[1]][c2[2]].feature_id

\* two detectors are between taking an id and writing the counter back
C25_BothInFlight ==
    \E d1, d2 \in ConcurrentDetectors :
        /\ d1 # d2
        /\ pc[d1].at \in {"load", "store"} /\ pc[d2].at \in {"load", "store"}

-----------------------------------------------------------------------------
(* The members of a circular pattern and its fitted circle *)

\* the distance (1/FP units) of the feature with this id from the centre of
\* pattern p
MemberDistFP(p, id) ==
    DistToCenterFP(Centers(features)[IndexOfId(features, id)], p.center)

\* the fitted radius: the distance of the first seed from the centre
FittedRadiusFP(p) == MemberDistFP(p, p.feature_ids[1])

OnFittedCircle(p) ==
    \A a \in 1..Len(p.feature_ids) :
        Abs(MemberDistFP(p, p.feature_ids[a]) - FittedRadiusFP(p))
            < POSITION_TOLERANCE * FP

\* C26: for every circular pattern returned, the distance of every member
\* (the three seeds included) from the pattern's centre differs from the
\* fitted radius by less than POSITION_TOLERANCE, whatever the Z coordinates
\* of the centres.
C26_MembersOnFittedCircle ==
    Recognized =>
        \A c \in 1..Len(PatternsOfType("CIRCULAR")) :
            OnFittedCircle(PatternsOfType("CIRCULAR")[c])

\* the same for features whose centres are in one Z plane
CoplanarMembersOnFittedCircle ==
    (Recognized /\ CommonZ(features)) =>
        \A c \in 1..Len(PatternsOfType("CIRCULAR")) :
            OnFittedCircle(PatternsOfType("CIRCULAR")[c])

\* the members added after the three seeds are always within the tolerance
AddedMembersOnFittedCircle ==
    Recognized =>
        \A c \in 1..Len(PatternsOfType("CIRCULAR")) :
            LET p == PatternsOfType("CIRCULAR")[c]
            IN  \A a \in 4..Len(p.feature_ids) :
                    Abs(MemberDistFP(p, p.feature_ids[a]) - FittedRadiusFP(p))
                        < POSITION_TOLERANCE * FP

\* a circular pattern of four members found among features of two Z planes
TiltedCircleFound ==
    /\ Recognized
    /\ ~CommonZ(features)
    /\ \E c \in 1..Len(PatternsOfType("CIRCULAR")) :
          Len(PatternsOfType("CIRCULAR")[c].feature_ids) = 4

-----------------------------------------------------------------------------
(* Type groups of features without a centre *)

\* the ids of the features of type t, in list order
GroupIds(fs, t) ==
    LET group == SelectSeq(fs, LAMBDA f : f.feature_type = t)
    IN  [k \in 1..Len(group) |-> group[k].feature_id]

\* the type group t has n >= 2 features and none of them has a centre
CentrelessGroup(fs, t) ==
    /\ Len(GroupIds(fs, t)) >= 2
    /\ \A k \in 1..Len(fs) : fs[k].feature_type = t => fs[k].center = NoCenter

\* the patterns returned for the type group t
PatternsOfGroup(t) ==
    SelectSeq(patterns, LAMBDA p : PatternIds(p) \subseteq Range(GroupIds(features, t)))

-----------------------------------------------------------------------------
(* The linear patterns of one call *)

LinearPatterns == PatternsOfType("LINEAR")

SameGroup(i, j) == features[i].feature_type = features[j].feature_type

\* the centres of features i and j are at least 0.1 mm apart
FarApart(i, j) ==
    Dist2(Centers(features)[i], Centers(features)[j]) >= TOO_CLOSE * TOO_CLOSE

\* no third feature of the group is on the line from feature i to feature j
AloneOnLine(i, j) ==
    LET c == Centers(features)
    IN  \A k \in 1..Len(features) :
            (k \notin {i, j} /\ SameGroup(i, k))
               => ~PatternRecognizer_is_on_line(c[i], Sub(c[j], c[i]), c[k])

\* a linear pattern of exactly the features i and j, with confidence 1.0
IsLinearPair(i, j) ==
    \E a \in 1..Len(LinearPatterns) :
        /\ PatternIds(LinearPatterns[a])
              = {features[i].feature_id, features[j].feature_id}
        /\ LinearPatterns[a].pattern_count = 2
        /\ Len(LinearPatterns[a].feature_ids) = 2
        /\ FracEq(LinearPatterns[a].confidence, FracOne)

\* feature i or feature j is in a linear pattern with some other feature
ConsumedElsewhere(i, j) ==
    \E a \in 1..Len(LinearPatterns) :
        /\ PatternIds(LinearPatterns[a])
              \cap {features[i].feature_id, features[j].feature_id} # {}
        /\ PatternIds(LinearPatterns[a])
              # {features[i].feature_id, features[j].feature_id}

\* the linear patterns of a group are pairwise disjoint and without repetition
LinearPatternsDisjoint ==
    /\ \A a, b \in 1..Len(LinearPatterns) :
          a # b => PatternIds(LinearPatterns[a]) \cap PatternIds(LinearPatterns[b]) = {}
    /\ \A a \in 1..Len(LinearPatterns) :
          Cardinality(PatternIds(LinearPatterns[a])) = Len(LinearPatterns[a].feature_ids)

\* C30 as stated: the linear patterns are pairwise disjoint; any two features
\* of a group at least 0.1 apart with no third feature on their line form a
\* linear pattern of 2 members with confidence 1.0; every type group of exactly
\* 2 features at different positions yields a linear pattern.
C30_EveryFarPairLinear ==
    Recognized =>
        /\ LinearPatternsDisjoint
        /\ \A i, j \in 1..Len(features) :
              (i < j /\ SameGroup(i, j) /\ FarApart(i, j) /\ AloneOnLine(i, j))
                 => IsLinearPair(i, j)
        /\ \A i, j \in 1..Len(features) :
              (/\ i < j /\ SameGroup(i, j)
               /\ TypeCount(features, features[i].feature_type) = 2
               /\ Centers(features)[i] # Centers(features)[j])
                 => IsLinearPair(i, j)

\* C30 amended: the linear patterns are pairwise disjoint; two features of a
\* group at least 0.1 apart with no third feature on their line, neither of
\* them consumed by a linear pattern with another feature, form a linear
\* pattern of 2 members with confidence 1.0; every type group of exactly 2
\* features at least 0.1 apart yields a linear pattern.
C30_UnconsumedFarPairLinear ==
    Recognized =>
        /\ LinearPatternsDisjoint
        /\ \A i, j \in 1..Len(features) :
              (/\ i < j /\ SameGroup(i, j) /\ FarApart(i, j) /\ AloneOnLine(i, j)
               /\ ~ConsumedElsewhere(i, j))
                 => IsLinearPair(i, j)
        /\ \A i, j \in 1..Len(features) :
              (/\ i < j /\ SameGroup(i, j)
               /\ TypeCount(features, features[i].feature_type) = 2
               /\ FarApart(i, j))
                 => IsLinearPair(i, j)

\* C30 witness: three features of one type not on one line, recognized: the
\* first two form a linear pattern of 2 members with confidence 1.0, and the
\* first and the third, far apart and alone on their line, form none because
\* the first is consumed.
C30_Witness ==
    /\ Recognized
    /\ Len(features) = 3 /\ SameType(features)
    /\ IsLinearPair(1, 2)
    /\ FarApart(1, 3) /\ AloneOnLine(1, 3)
    /\ ConsumedElsewhere(1, 3) /\ ~IsLinearPair(1, 3)

\* a group of two features at different positions less than 0.1 apart, and no
\* linear pattern
ClosePairNoLinear ==
    /\ Recognized
    /\ Len(features) = 2 /\ SameType(features)
    /\ Centers(features)[1] # Centers(features)[2]
    /\ ~FarApart(1, 2)
    /\ LinearPatterns = <<>>

-----------------------------------------------------------------------------
(* The two memberships of fuzzy_classify never overlap *)

\* depth and diameter + 0.001 of the k-th input: the aspect ratio is their
\* quotient, above 1 when the first is the greater
RatioNum(k) == DepthOf(k)
RatioDen(k) == DiameterOf(k) + EPSILON

\* C27: the hole and pocket memberships are never both positive (a positive
\* hole membership needs an aspect ratio above 1, a positive pocket membership
\* one below 1), so alternative_classifications is always empty; at an aspect
\* ratio of exactly 1 both are 0 and the result is 'hole' with confidence 0.
C27_MembershipsExclusive ==
    \A a \in Classified :
        LET r == classifications[a]
        IN  /\ RatioDen(a) > 0
            /\ ~(FracLess(FracZero, HoleOf(a)) /\ FracLess(FracZero, PocketOf(a)))
            /\ FracLess(FracZero, HoleOf(a)) => RatioNum(a) > RatioDen(a)
            /\ FracLess(FracZero, PocketOf(a)) => RatioNum(a) < RatioDen(a)
            /\ r.alternative_classifications = <<>>
            /\ RatioNum(a) = RatioDen(a) =>
                  /\ FracEq(HoleOf(a), FracZero) /\ FracEq(PocketOf(a), FracZero)
                  /\ r.primary_classification = "hole"
                  /\ FracEq(r.confidence, FracZero)

\* C27 witness: an input of aspect ratio exactly 1 classified 'hole' with
\* confidence 0, and an input on the pocket ramp classified 'pocket' with a
\* confidence above 0.3, both without alternatives.
C27_Witness ==
    /\ Len(classifications) = 2
    /\ RatioNum(1) = RatioDen(1)
    /\ classifications[1].primary_classification = "hole"
    /\ FracEq(classifications[1].confidence, FracZero)
    /\ classifications[2].primary_classification = "pocket"
    /\ FracLess(Frac(3, 10), classifications[2].confidence)
    /\ FracLess(classifications[2].confidence, FracOne)
    /\ classifications[1].alternative_classifications = <<>>
    /\ classifications[2].alternative_classifications = <<>>

====
